---- MODULE Spec2Model ----
(***************************************************************************)
(* ADAPT-VQE outer loop (ADAPTSolver) composed with the inner VQE          *)
(* minimisation, as implemented in                                         *)
(*   qsdk/electronic_structure_solvers/adapt_vqe_solver.py                 *)
(* The quantum side is abstracted: a pool operator is its pool index, a    *)
(* circuit is the list of operators it holds together with the angles its  *)
(* variational gates are currently set to, energies / gradients /          *)
(* tolerances are integers (a fixed-point scale of the floats).            *)
(***************************************************************************)
EXTENDS Integers, Sequences, FiniteSets, TLC

(* ------------------------------ bounds --------------------------------- *)
\* largest max_cycles option explored
MaxCyclesBound == 2
\* number of operators in the pool returned by ansatz.get_pool()
PoolSize == 2
\* largest gradient magnitude returned by the backend
MaxGrad == 2
\* largest number of objective evaluations of one minimize() call
MaxEvals == 2

\* values of the "tol" option (1e-3 by default; scaled)
TolVals == {1, 2}
\* values a variational parameter takes (0 is the value of a new parameter)
ParamVals == {0, 1}
\* per-operator energy coefficient of the Hamiltonian
CoefVals == {-1, 1}

PoolIndices == 0 .. (PoolSize - 1)
GradVals == (0 - MaxGrad) .. MaxGrad

\* Python None for an optional value; Some(v) is a set value
None == << >>
Some(v) == << v >>

VARIABLES
    pc,                 \* position of the caller / of simulate()
    max_cycles,         \* option "max_cycles"
    tol,                \* option "tol"
    qubit_hamiltonian,  \* option "qubit_hamiltonian" / built Hamiltonian
    converged,          \* self.converged
    iteration,          \* self.iteration
    optimal_energy,     \* self.optimal_energy
    optimal_var_params, \* self.optimal_var_params
    optimal_circuit,    \* self.optimal_circuit
    operators,          \* self.vqe_solver.ansatz.operators (pool indices)
    var_params,         \* self.vqe_solver.ansatz.var_params
    circuit,            \* self.vqe_solver.ansatz.circuit
    initial_var_params, \* self.vqe_solver.initial_var_params
    energies,           \* local "energies" of simulate()
    params,             \* local "params" of simulate()
    pool_select,        \* local "pool_select" of simulate()
    gradient,           \* local "gradient" of rank_pool()
    rank_circuit,       \* argument "circuit" of rank_pool()
    result,             \* scipy OptimizeResult being computed by minimize()
    pool_operators,     \* self.pool_operators
    fermionic_operators, \* self.fermionic_operators
    pool_commutators,   \* self.pool_commutators
    expectation,        \* backend answer per pool operator (concurrent
                        \* ranking)
    completion,         \* pool indices in the order their evaluations
                        \* completed
    n_spinorbitals,     \* UCCSD: self.n_spinorbitals
    n_electrons,        \* UCCSD: self.n_electrons
    uccsd_var_params,   \* UCCSD: self.var_params
    uccsd_circuit,      \* UCCSD: self.circuit, its variational gates in order
    pauli_to_angles_mapping, \* UCCSD: self.pauli_to_angles_mapping
    uccsd_call,         \* UCCSD: the last method call and how it ended
    solver_class,       \* the solver class being instantiated
    opt_dict,           \* the options handed to its __init__
    life_pc,            \* "new", "constructed", "built", or "none" once
                        \* __init__ has raised and no object exists
    attrs,              \* names of the attributes the object holds
    solver_call,        \* the last call on the solver and how it ended
    backend_called,     \* a backend call has been made for the object
    job_pc,             \* job_result: position of the caller in job_result
    qemist_cloud_job_id,\* job_result: the job id argument
    util_available,     \* the qemist_client.util import succeeded
    job_state,          \* status of the job on the cloud service
    monitor,            \* how util.monitor_problem_status has ended
    command,            \* the answer typed at the prompt
    cancelled,          \* ids of the jobs that were cancelled
    retrieved,          \* util.get_quantum_results has been called
    job_raised,         \* exception that left job_result, if any
    gen_pc,             \* position in a call of uccgsd_generator
    n_qubits,           \* argument n_qubits
    up_down,            \* argument up_down
    single_coeffs,      \* argument single_coeffs: None or the length of the
                        \* list
    double_coeffs,      \* argument double_coeffs: None or the length of the
                        \* list
    coeffs,             \* coeffs of uccgsd_generator, each named by its
                        \* position
    cursor,             \* position of the running loop in its iteration space
    all_terms,          \* all_terms of get_singles / get_doubles /
                        \* get_all_excitations
    all_operators,      \* all_operators of uccgsd_generator
    gen_raised,         \* exception that left uccgsd_generator
    map_pc,             \* position in a call of fermion_to_qubit_mapping
    up_then_down,       \* argument up_then_down
    map_n_spinorbitals, \* argument n_spinorbitals: None or a number
    fermion_operator,   \* terms of the input operator and their coefficients
    remapped,           \* the mode register make_up_then_down computed
    new_operator,       \* terms of the operator handed to the encoding
    map_raised,         \* exception that left fermion_to_qubit_mapping
    frag_pc,            \* whether a Fragment object exists
    solver_low,         \* attribute solver_low
    solver_high,        \* attribute solver_high
    options_low,        \* attribute options_low: the dictionary it refers to
    options_high,       \* attribute options_high: the dictionary it refers to
    dicts,              \* the keys of every option dictionary
    geometry,           \* attribute geometry
    mol_low,            \* attribute mol_low
    mol_high,           \* attribute mol_high
    e_fragment,         \* attribute e_fragment
    solvers,            \* attribute solvers
    get_mol_calls,      \* number of calls of get_mol for either molecule
    frag_call           \* the last call of simulate()

vars == << pc, max_cycles, tol, qubit_hamiltonian, converged, iteration,
           optimal_energy, optimal_var_params, optimal_circuit, operators,
           var_params, circuit, initial_var_params, energies, params,
           pool_select, gradient, rank_circuit, result, expectation,
           completion, pool_operators, fermionic_operators,
           pool_commutators, n_spinorbitals, n_electrons, uccsd_var_params,
           uccsd_circuit, pauli_to_angles_mapping, uccsd_call, solver_class,
           opt_dict, life_pc, attrs, solver_call, backend_called,
           job_pc, qemist_cloud_job_id, util_available, job_state, monitor,
           command, cancelled, retrieved, job_raised,
           gen_pc, n_qubits, up_down, single_coeffs, double_coeffs, coeffs,
           cursor, all_terms, all_operators, gen_raised,
           map_pc, up_then_down, map_n_spinorbitals, fermion_operator,
           remapped, new_operator, map_raised,
           frag_pc, solver_low, solver_high, options_low, options_high,
           dicts, geometry, mol_low, mol_high, e_fragment, solvers,
           get_mol_calls, frag_call >>

\* state of a ranking whose evaluations run concurrently
conc_vars == << expectation, completion >>

\* state of the solver outside a ranking
solver_vars == << max_cycles, qubit_hamiltonian, converged, iteration,
                  optimal_energy, optimal_var_params, optimal_circuit,
                  operators, var_params, circuit, initial_var_params,
                  energies, params, rank_circuit, result >>

\* the operator pool and its cached commutators
pool_vars == << pool_operators, fermionic_operators, pool_commutators >>

\* the UCCSD ansatz object
uccsd_vars == << n_spinorbitals, n_electrons, uccsd_var_params,
                uccsd_circuit, pauli_to_angles_mapping, uccsd_call >>

\* construction and build of a solver object
life_vars == << solver_class, opt_dict, life_pc, attrs, solver_call,
               backend_called >>

\* a job on the cloud service and a call of job_result for it
job_vars == << job_pc, qemist_cloud_job_id, util_available, job_state,
              monitor, command, cancelled, retrieved, job_raised >>

\* a call of uccgsd_generator
gen_vars == << gen_pc, n_qubits, up_down, single_coeffs, double_coeffs,
               coeffs, cursor, all_terms, all_operators, gen_raised >>

\* a call of fermion_to_qubit_mapping
map_vars == << map_pc, up_then_down, map_n_spinorbitals, fermion_operator,
               remapped, new_operator, map_raised >>

\* a Fragment object of the ONIOM solver
frag_vars == << frag_pc, solver_low, solver_high, options_low, options_high,
                dicts, geometry, mol_low, mol_high, e_fragment, solvers,
                get_mol_calls, frag_call >>

\* everything of the ADAPT solver and its run
adapt_vars == << pc, tol, pool_select, gradient, solver_vars, conc_vars,
                pool_vars >>

\* what a step of the ADAPT run does not touch
outside_adapt == << conc_vars, uccsd_vars, life_vars, job_vars, gen_vars,
                    map_vars, frag_vars >>
\* what a step of the concurrent ranking does not touch
outside_rank == << solver_vars, pool_vars, uccsd_vars, life_vars, job_vars,
                   gen_vars, map_vars, frag_vars >>
\* what a step of simulate() does not touch
outside_run == << pool_vars, outside_adapt >>


(* --------------------------- pure helpers ------------------------------ *)
Abs(x) == IF x < 0 THEN 0 - x ELSE x

\* Python max(list): the largest element of a non-empty list
RECURSIVE Max(_)
Max(s) ==
    IF Len(s) = 1 THEN s[1]
    ELSE LET m == Max(Tail(s)) IN IF s[1] >= m THEN s[1] ELSE m

\* Python list.index(v): scan from the front, 0-based position of the first
\* element equal to v
RECURSIVE IndexFrom(_, _, _)
IndexFrom(s, v, i) ==
    IF s[i] = v THEN i - 1 ELSE IndexFrom(s, v, i + 1)

Index(s, v) == IndexFrom(s, v, 1)

RECURSIVE IndexLastFrom(_, _, _)
IndexLastFrom(s, v, i) ==
    IF s[i] = v THEN i - 1 ELSE IndexLastFrom(s, v, i - 1)

\* faulty variant of RankPool: the tolerance test is dropped
RankPoolNoTol(grad, tolerance) == Index(grad, Max(grad))

\* faulty variant of RankPool: strict comparison with the tolerance
RankPoolStrict(grad, tolerance) ==
    LET max_partial == Max(grad)
    IN IF max_partial > tolerance THEN Index(grad, max_partial) ELSE -1

\* faulty variant of RankPool: the last maximal element is selected
RankPoolLast(grad, tolerance) ==
    LET max_partial == Max(grad)
    IN IF max_partial >= tolerance
       THEN IndexLastFrom(grad, max_partial, Len(grad)) ELSE -1

\* ADAPTSolver.rank_pool, reduction of the gradient list
RankPool(grad, tolerance) ==
    LET max_partial == Max(grad)
    IN IF max_partial >= tolerance THEN Index(grad, max_partial) ELSE -1

\* circuits
NoCircuit == [operators |-> << >>, angles |-> << >>, state |-> "none"]
BuiltCircuit(ops, x) == [operators |-> ops, angles |-> x, state |-> "built"]

\* backend.get_expectation_value(qubit_hamiltonian, circuit): a deterministic
\* function of the circuit; a gate whose angle is 0 acts as the identity
RECURSIVE EnergySum(_, _, _)
EnergySum(ham, ops, x) ==
    IF Len(ops) = 0 THEN 0
    ELSE x[1] * ham[ops[1]] + EnergySum(ham, Tail(ops), Tail(x))

Energy(ham, c) == EnergySum(ham, c.operators, c.angles)

ParamVecs(n) == [1 .. n -> ParamVals]

\* no minimize() call in progress
NoResult == [x |-> << >>, fun |-> 0, nfev |-> 0]

\* no method of a UCCSD object has been called
NoCall == [name |-> "none", outcome |-> "none", path |-> "none",
           arg_len |-> -1]

\* no UCCSD object takes part
NoUccsd ==
    /\ n_spinorbitals = 0
    /\ n_electrons = 0
    /\ uccsd_var_params = None
    /\ uccsd_circuit = None
    /\ pauli_to_angles_mapping = None
    /\ uccsd_call = NoCall

\* no solver object is under construction
NoLife ==
    /\ solver_class = "none"
    /\ opt_dict = << >>
    /\ life_pc = "none"
    /\ attrs = {}
    /\ solver_call = [name |-> "none", outcome |-> "none"]
    /\ backend_called = FALSE

\* no job takes part
NoJob ==
    /\ job_pc = "none"
    /\ qemist_cloud_job_id = 0
    /\ util_available = FALSE
    /\ job_state = "none"
    /\ monitor = "none"
    /\ command = ""
    /\ cancelled = {}
    /\ retrieved = FALSE
    /\ job_raised = "none"

\* no excitation generator takes part
NoGen ==
    /\ gen_pc = "none"
    /\ n_qubits = 0
    /\ up_down = FALSE
    /\ single_coeffs = << >>
    /\ double_coeffs = << >>
    /\ coeffs = << >>
    /\ cursor = 0
    /\ all_terms = << >>
    /\ all_operators = << >>
    /\ gen_raised = "none"

\* no operator is being mapped
NoMap ==
    /\ map_pc = "none"
    /\ up_then_down = FALSE
    /\ map_n_spinorbitals = << >>
    /\ fermion_operator = << >>
    /\ remapped = << >>
    /\ new_operator = << >>
    /\ map_raised = "none"

\* no Fragment object takes part
NoFrag ==
    /\ frag_pc = "none"
    /\ solver_low = ""
    /\ solver_high = << >>
    /\ options_low = ""
    /\ options_high = ""
    /\ dicts = << >>
    /\ geometry = << >>
    /\ mol_low = << >>
    /\ mol_high = << >>
    /\ e_fragment = << >>
    /\ solvers = << >>
    /\ get_mol_calls = << >>
    /\ frag_call = << >>

(* ------------------------------- Init ---------------------------------- *)
\* state after ADAPTSolver.__init__(opt_dict)
Init ==
    /\ pc = "constructed"
    /\ max_cycles \in 0 .. MaxCyclesBound
    /\ tol \in TolVals
    /\ qubit_hamiltonian \in [PoolIndices -> CoefVals]
    /\ converged = FALSE
    /\ iteration = 0
    /\ optimal_energy = None
    /\ optimal_var_params = None
    /\ optimal_circuit = None
    /\ operators = << >>
    /\ var_params = << >>
    /\ circuit = NoCircuit
    /\ initial_var_params = << >>
    /\ energies = << >>
    /\ params = << >>
    /\ pool_select = -1
    /\ gradient = << >>
    /\ rank_circuit = NoCircuit
    /\ result = NoResult
    /\ expectation = << >>
    /\ completion = << >>
    /\ pool_operators = << >>
    /\ fermionic_operators = << >>
    /\ pool_commutators = << >>
    /\ NoUccsd
    /\ NoLife
    /\ NoJob
    /\ NoGen
    /\ NoMap
    /\ NoFrag

(* --------------------- ansatz (vqe_solver.ansatz) ---------------------- *)
\* ansatz.add_operator(op): the term is appended and the derived circuit is
\* stale until it is next updated
AddOperator(ops, op) == Append(ops, op)

StaleCircuit(c) == [c EXCEPT !.state = "stale"]

\* ansatz.update_var_params(x) / ansatz.build_circuit(x): afterwards the
\* circuit holds one fragment per term, in insertion order, set to x
UpdateVarParams(ops, x) == BuiltCircuit(ops, x)

(* ------------------------------ build() -------------------------------- *)
\* ansatz.get_pool(): the generators of the pool, each named by its
\* position; the qubit and the fermionic list name the same generators
GetPool == [i \in 1 .. PoolSize |-> i - 1]

\* commutator(qubit_hamiltonian, element), line 143
Commutator(ham, element) == [hamiltonian |-> ham, element |-> element]
Commutators(ham, pool) ==
    [i \in 1 .. Len(pool) |-> Commutator(ham, pool[i])]

\* ADAPTSolver.build: the ansatz is created empty, the VQE solver builds
\* the reference circuit, the pool and its commutators are cached
Build ==
    /\ pc = "constructed"
    /\ pc' = "built"
    /\ operators' = << >>
    /\ var_params' = << >>
    /\ initial_var_params' = << >>
    /\ circuit' = BuiltCircuit(<< >>, << >>)
    /\ pool_operators' = GetPool
    /\ fermionic_operators' = GetPool
    /\ pool_commutators' = Commutators(qubit_hamiltonian, GetPool)
    /\ UNCHANGED << max_cycles, tol, qubit_hamiltonian, converged, iteration,
                    optimal_energy, optimal_var_params, optimal_circuit,
                    energies, params, pool_select, gradient, rank_circuit,
                    result >>
    /\ UNCHANGED outside_adapt

(* ----------------------------- simulate() ------------------------------ *)
\* lines 148-149
SimulateEnter ==
    /\ pc = "built"
    /\ pc' = "while"
    /\ energies' = << >>
    /\ params' = var_params
    /\ UNCHANGED << max_cycles, tol, qubit_hamiltonian, converged, iteration,
                    optimal_energy, optimal_var_params, optimal_circuit,
                    operators, var_params, circuit, initial_var_params,
                    pool_select, gradient, rank_circuit, result >>
    /\ UNCHANGED outside_run

\* faulty variant of WhileTest: the loop test lets one more round start
WhileTestOffByOne ==
    /\ pc = "while"
    /\ IF iteration <= max_cycles
       THEN /\ iteration' = iteration + 1
            /\ pc' = "rank"
            /\ gradient' = << >>
            /\ rank_circuit' = circuit
       ELSE /\ pc' = "done"
            /\ UNCHANGED << iteration, gradient, rank_circuit >>
    /\ UNCHANGED << max_cycles, tol, qubit_hamiltonian, converged,
                    optimal_energy, optimal_var_params, optimal_circuit,
                    operators, var_params, circuit, initial_var_params,
                    energies, params, pool_select, result >>
    /\ UNCHANGED outside_run

\* lines 153-158: the loop test, the round counter, the call of rank_pool
\* with the ansatz circuit as it is now; line 182 when the test fails
WhileTest ==
    /\ pc = "while"
    /\ IF iteration < max_cycles
       THEN /\ iteration' = iteration + 1
            /\ pc' = "rank"
            /\ gradient' = << >>
            /\ rank_circuit' = circuit
       ELSE /\ pc' = "done"
            /\ UNCHANGED << iteration, gradient, rank_circuit >>
    /\ UNCHANGED << max_cycles, tol, qubit_hamiltonian, converged,
                    optimal_energy, optimal_var_params, optimal_circuit,
                    operators, var_params, circuit, initial_var_params,
                    energies, params, pool_select, result >>
    /\ UNCHANGED outside_run

\* line 198, one element of the list comprehension: the next commutator of
\* the pool, in pool order, is measured against the circuit argument
RankEval ==
    /\ pc = "rank"
    /\ Len(gradient) < PoolSize
    /\ \E v \in GradVals : gradient' = Append(gradient, Abs(v))
    /\ UNCHANGED << pc, max_cycles, tol, qubit_hamiltonian, converged,
                    iteration, optimal_energy, optimal_var_params,
                    optimal_circuit, operators, var_params, circuit,
                    initial_var_params, energies, params, pool_select,
                    rank_circuit, result >>
    /\ UNCHANGED outside_run

\* faulty variant of RankReturn: the ranking returns while calls of the
\* comprehension are still outstanding
RankReturnEarly ==
    /\ pc = "rank"
    /\ Len(gradient) >= 1
    /\ pool_select' = RankPool(gradient, tol)
    /\ pc' = "branch"
    /\ UNCHANGED << max_cycles, tol, qubit_hamiltonian, converged, iteration,
                    optimal_energy, optimal_var_params, optimal_circuit,
                    operators, var_params, circuit, initial_var_params,
                    energies, params, gradient, rank_circuit, result >>
    /\ UNCHANGED outside_run

\* lines 199-204 and the assignment of line 157
RankReturn ==
    /\ pc = "rank"
    /\ Len(gradient) = PoolSize
    /\ pool_select' = RankPool(gradient, tol)
    /\ pc' = "branch"
    /\ UNCHANGED << max_cycles, tol, qubit_hamiltonian, converged, iteration,
                    optimal_energy, optimal_var_params, optimal_circuit,
                    operators, var_params, circuit, initial_var_params,
                    energies, params, gradient, rank_circuit, result >>
    /\ UNCHANGED outside_run

\* faulty variant of NewParams: the new parameter does not start at zero
NewParamsOne(p) == Append(p, 1)

\* faulty variant of NewParams: the previous parameters are dropped
NewParamsReset(p) == << 0 >>

\* faulty variant of NewParams: no parameter is added for the new operator
NewParamsNone(p) == p

\* line 167: params += [0.]
NewParams(p) == Append(p, 0)

\* faulty variant of Grow: the ansatz is restarted from the selected operator
GrowRestart ==
    /\ pc = "branch"
    /\ pool_select > -1
    /\ params' = NewParams(params)
    /\ operators' = << pool_select >>
    /\ circuit' = StaleCircuit(circuit)
    /\ initial_var_params' = params'
    /\ result' = NoResult
    /\ gradient' = << >>
    /\ rank_circuit' = NoCircuit
    /\ pc' = "opt"
    /\ UNCHANGED << max_cycles, tol, qubit_hamiltonian, converged, iteration,
                    optimal_energy, optimal_var_params, optimal_circuit,
                    var_params, energies, pool_select >>
    /\ UNCHANGED outside_run

\* faulty variant of Grow: an operator the ansatz already holds is refused
GrowGuarded ==
    /\ pc = "branch"
    /\ pool_select > -1
    /\ IF \E k \in 1 .. Len(operators) : operators[k] = pool_select
       THEN /\ pc' = "raised"
            /\ energies' = << >>
            /\ params' = << >>
            /\ UNCHANGED << operators, circuit, initial_var_params, result,
                            gradient, rank_circuit >>
       ELSE /\ params' = NewParams(params)
            /\ operators' = AddOperator(operators, pool_select)
            /\ circuit' = StaleCircuit(circuit)
            /\ initial_var_params' = params'
            /\ result' = NoResult
            /\ gradient' = << >>
            /\ rank_circuit' = NoCircuit
            /\ pc' = "opt"
            /\ UNCHANGED energies
    /\ UNCHANGED << max_cycles, tol, qubit_hamiltonian, converged, iteration,
                    optimal_energy, optimal_var_params, optimal_circuit,
                    var_params, pool_select >>
    /\ UNCHANGED outside_run

\* the sequence without its element at position k
Remove(seq, k) == SubSeq(seq, 1, k - 1) \o SubSeq(seq, k + 1, Len(seq))

\* faulty variant of Grow: the operator that was selected is taken out of
\* the pool
GrowConsuming ==
    /\ pc = "branch"
    /\ pool_select > -1
    /\ params' = NewParams(params)
    /\ operators' = AddOperator(operators, pool_operators[pool_select + 1])
    /\ circuit' = StaleCircuit(circuit)
    /\ initial_var_params' = params'
    /\ result' = NoResult
    /\ gradient' = << >>
    /\ rank_circuit' = NoCircuit
    /\ pc' = "opt"
    /\ UNCHANGED << max_cycles, tol, qubit_hamiltonian, converged, iteration,
                    optimal_energy, optimal_var_params, optimal_circuit,
                    var_params, energies, pool_select >>
    /\ UNCHANGED << pool_commutators, outside_adapt >>
    /\ pool_operators' = Remove(pool_operators, pool_select + 1)
    /\ fermionic_operators' = Remove(fermionic_operators, pool_select + 1)

\* lines 163-169 and the entry into vqe_solver.simulate() / minimize(); the
\* locals of the finished rank_pool call are gone
Grow ==
    /\ pc = "branch"
    /\ pool_select > -1
    /\ params' = NewParams(params)
    /\ operators' = AddOperator(operators, pool_operators[pool_select + 1])
    /\ circuit' = StaleCircuit(circuit)
    /\ initial_var_params' = params'
    /\ result' = NoResult
    /\ gradient' = << >>
    /\ rank_circuit' = NoCircuit
    /\ pc' = "opt"
    /\ UNCHANGED << max_cycles, tol, qubit_hamiltonian, converged, iteration,
                    optimal_energy, optimal_var_params, optimal_circuit,
                    var_params, energies, pool_select >>
    /\ UNCHANGED outside_run

\* faulty variant of Converge: the converging ranking does not count as a
\* round
ConvergeUncounted ==
    /\ pc = "branch"
    /\ ~ (pool_select > -1)
    /\ converged' = TRUE
    /\ iteration' = iteration - 1
    /\ pc' = "done"
    /\ UNCHANGED << max_cycles, tol, qubit_hamiltonian,
                    optimal_energy, optimal_var_params, optimal_circuit,
                    operators, var_params, circuit, initial_var_params,
                    energies, params, pool_select, gradient, rank_circuit,
                    result >>
    /\ UNCHANGED outside_run

\* lines 178-182
Converge ==
    /\ pc = "branch"
    /\ ~ (pool_select > -1)
    /\ converged' = TRUE
    /\ pc' = "done"
    /\ UNCHANGED << max_cycles, tol, qubit_hamiltonian, iteration,
                    optimal_energy, optimal_var_params, optimal_circuit,
                    operators, var_params, circuit, initial_var_params,
                    energies, params, pool_select, gradient, rank_circuit,
                    result >>
    /\ UNCHANGED outside_run

(* ------------------- inner optimisation (minimize) --------------------- *)
\* VQESolver.energy_estimation(x): the ansatz is updated to x, then the
\* Hamiltonian is measured against the resulting circuit.
\* minimize: the first evaluation is at the starting point; a later point
\* replaces the iterate only if the objective does not increase there
\* (L-BFGS-B line search); probing points leave the iterate alone.
OptEval ==
    /\ pc = "opt"
    /\ result.nfev < MaxEvals
    /\ \E x \in ParamVecs(Len(initial_var_params)) :
          /\ result.nfev = 0 => x = initial_var_params
          /\ circuit' = UpdateVarParams(operators, x)
          /\ var_params' = x
          /\ LET energy == Energy(qubit_hamiltonian, circuit')
             IN \/ /\ result.nfev = 0 \/ energy <= result.fun
                   /\ result' = [x |-> x, fun |-> energy,
                                 nfev |-> result.nfev + 1]
                \/ /\ result.nfev > 0
                   /\ result' = [result EXCEPT !.nfev = @ + 1]
    /\ UNCHANGED << pc, max_cycles, tol, qubit_hamiltonian, converged,
                    iteration, optimal_energy, optimal_var_params,
                    optimal_circuit, operators, initial_var_params, energies,
                    params, pool_select, gradient, rank_circuit >>
    /\ UNCHANGED outside_run

\* the OptimizeResult once its call has returned: line 231 reports nfev,
\* nothing else of it is read again
Returned(r) == [NoResult EXCEPT !.nfev = r.nfev]

\* faulty variant of OptReturn: a result that stopped at the evaluation cap
\* is treated as an error
OptReturnChecked ==
    /\ pc = "opt"
    /\ result.nfev > 0
    /\ IF result.nfev = MaxEvals
       THEN /\ pc' = "raised"
            /\ energies' = << >>
            /\ params' = << >>
            /\ result' = NoResult
            /\ UNCHANGED << optimal_var_params, optimal_energy, circuit,
                            var_params, optimal_circuit >>
       ELSE /\ optimal_var_params' = Some(result.x)
            /\ optimal_energy' = Some(result.fun)
            /\ IF converged \/ iteration = max_cycles
               THEN /\ circuit' = UpdateVarParams(operators, result.x)
                    /\ var_params' = result.x
                    /\ optimal_circuit' = Some(circuit')
               ELSE UNCHANGED << circuit, var_params, optimal_circuit >>
            /\ params' = result.x
            /\ energies' = Append(energies, result.fun)
            /\ result' = Returned(result)
            /\ pc' = "while"
    /\ UNCHANGED << max_cycles, tol, qubit_hamiltonian, converged, iteration,
                    operators, initial_var_params, pool_select, gradient,
                    rank_circuit >>
    /\ UNCHANGED outside_run

\* minimize returns its iterate, whether or not it met its tolerance before
\* its cap (result.success is not read); LBFGSB_optimizer lines 219-233,
\* then simulate lines 175-177
OptReturn ==
    /\ pc = "opt"
    /\ result.nfev > 0
    /\ optimal_var_params' = Some(result.x)
    /\ optimal_energy' = Some(result.fun)
    /\ IF converged \/ iteration = max_cycles
       THEN /\ circuit' = UpdateVarParams(operators, result.x)
            /\ var_params' = result.x
            /\ optimal_circuit' = Some(circuit')
       ELSE UNCHANGED << circuit, var_params, optimal_circuit >>
    /\ params' = result.x
    /\ energies' = Append(energies, result.fun)
    /\ result' = Returned(result)
    /\ pc' = "while"
    /\ UNCHANGED << max_cycles, tol, qubit_hamiltonian, converged, iteration,
                    operators, initial_var_params, pool_select, gradient,
                    rank_circuit >>
    /\ UNCHANGED outside_run

(* ----------------------- backend call that raises ---------------------- *)
\* simulate and rank_pool hold no try / except: an exception of
\* backend.get_expectation_value leaves through simulate, whose locals
\* (energies, params, pool_select) and those of rank_pool go with the frames

\* line 198: a call of the comprehension raises
RankFail ==
    /\ pc = "rank"
    /\ Len(gradient) < PoolSize
    /\ pc' = "raised"
    /\ energies' = << >>
    /\ params' = << >>
    /\ pool_select' = -1
    /\ gradient' = << >>
    /\ rank_circuit' = NoCircuit
    /\ UNCHANGED << max_cycles, tol, qubit_hamiltonian, converged, iteration,
                    optimal_energy, optimal_var_params, optimal_circuit,
                    operators, var_params, circuit, initial_var_params,
                    result >>
    /\ UNCHANGED outside_run

\* energy_estimation (sa_vqe_solver.py 277-281): the ansatz has been updated
\* to the point asked for when the backend call raises
OptFail ==
    /\ pc = "opt"
    /\ result.nfev < MaxEvals
    /\ \E x \in ParamVecs(Len(initial_var_params)) :
          /\ result.nfev = 0 => x = initial_var_params
          /\ circuit' = UpdateVarParams(operators, x)
          /\ var_params' = x
    /\ pc' = "raised"
    /\ energies' = << >>
    /\ params' = << >>
    /\ pool_select' = -1
    /\ result' = NoResult
    /\ UNCHANGED << max_cycles, tol, qubit_hamiltonian, converged, iteration,
                    optimal_energy, optimal_var_params, optimal_circuit,
                    operators, initial_var_params, gradient, rank_circuit >>
    /\ UNCHANGED outside_run

\* the steps of a run in which every call returns
Returns ==
    \/ Build
    \/ SimulateEnter
    \/ WhileTest
    \/ RankEval
    \/ RankReturn
    \/ Grow
    \/ Converge
    \/ OptEval
    \/ OptReturn

Next ==
    \/ Returns
    \/ RankFail
    \/ OptFail

Spec == Init /\ [][Next]_vars

\* every backend call and every optimizer call returns
FairSpec == Init /\ [][Returns]_vars /\ WF_vars(Returns)

(* ------------- ranking with concurrently evaluated operators ----------- *)
\* The expectation values of one ranking are independent reads of a fixed
\* circuit and may complete in any order; the list of line 198 holds the
\* result of pool operator i at position i whatever the order.
Pending == -1

\* faulty variant of StoreResult: results are kept in the order they arrive
StoreResultArrival(grad, i, v) ==
    LET k == CHOOSE j \in 1 .. Len(grad) :
                 grad[j] = Pending /\ \A h \in 1 .. (j - 1) : grad[h] # Pending
    IN [grad EXCEPT ![k] = v]

\* line 198: the value measured for pool operator i is element i of the list
StoreResult(grad, i, v) == [grad EXCEPT ![i + 1] = v]

ConcInit ==
    /\ pc = "rank"
    /\ tol \in TolVals
    /\ expectation \in [PoolIndices -> GradVals]
    /\ gradient = [i \in 1 .. PoolSize |-> Pending]
    /\ completion = << >>
    /\ pool_select = -1
    /\ max_cycles = 1
    /\ qubit_hamiltonian = [i \in PoolIndices |-> -1]
    /\ converged = FALSE
    /\ iteration = 1
    /\ optimal_energy = None
    /\ optimal_var_params = None
    /\ optimal_circuit = None
    /\ operators = << >>
    /\ var_params = << >>
    /\ circuit = BuiltCircuit(<< >>, << >>)
    /\ initial_var_params = << >>
    /\ energies = << >>
    /\ params = << >>
    /\ rank_circuit = circuit
    /\ result = NoResult
    /\ pool_operators = GetPool
    /\ fermionic_operators = GetPool
    /\ pool_commutators = Commutators(qubit_hamiltonian, GetPool)
    /\ NoUccsd
    /\ NoLife
    /\ NoJob
    /\ NoGen
    /\ NoMap
    /\ NoFrag

\* one backend call of line 198 completes
ConcEval ==
    /\ pc = "rank"
    /\ \E i \in PoolIndices :
          /\ \A k \in 1 .. Len(completion) : completion[k] # i
          /\ gradient' = StoreResult(gradient, i, Abs(expectation[i]))
          /\ completion' = Append(completion, i)
    /\ UNCHANGED << pc, tol, pool_select, expectation >>
    /\ UNCHANGED outside_rank

\* lines 199-204 once every call has completed
ConcReturn ==
    /\ pc = "rank"
    /\ Len(completion) = PoolSize
    /\ pool_select' = RankPool(gradient, tol)
    /\ pc' = "branch"
    /\ UNCHANGED << tol, gradient, expectation, completion >>
    /\ UNCHANGED outside_rank

ConcNext ==
    \/ ConcEval
    \/ ConcReturn

ConcSpec == ConcInit /\ [][ConcNext]_vars

(* ------------------------------ claims --------------------------------- *)
GradientSet == { gradient[i] : i \in 1 .. Len(gradient) }

\* C1: when every pool operator's gradient magnitude is below the tolerance
\* the round sets converged and ends the run at once: no operator is added,
\* no parameter changes, the optimizer is not entered, and nothing happens
\* after the run has ended.
C1_ConvergedStops ==
    [][ /\ pc # "done"
        /\ (pc = "branch" /\ \A g \in GradientSet : g < tol)
              => /\ converged'
                 /\ pc' = "done"
                 /\ UNCHANGED << operators, params, var_params, circuit,
                                 initial_var_params, energies, result,
                                 optimal_energy, optimal_var_params,
                                 optimal_circuit, iteration >> ]_vars

\* C1 witness: a run that converged through the ranker after it had grown
C1_Witness ==
    /\ pc = "done"
    /\ converged
    /\ Len(operators) >= 1
    /\ \A g \in GradientSet : g < tol

\* C2: with max_cycles = M the run ends, the round counter never exceeds M,
\* at most M operators are added, and at the loop test with the counter at
\* M the run ends without another ranking.
C2_BoundedRounds ==
    /\ <>(pc = "done")
    /\ [](iteration <= max_cycles /\ Len(operators) <= max_cycles)
    /\ [][(pc = "while" /\ iteration = max_cycles) => pc' = "done"]_vars

\* C2 witness: a run ended by the round cap after max_cycles growths
C2_Witness ==
    /\ pc = "done"
    /\ ~ converged
    /\ max_cycles >= 2
    /\ iteration = max_cycles
    /\ Len(operators) = max_cycles

C4_FirstMaximal ==
    (pc = "branch" /\ pool_select > -1) =>
        \A j \in 1 .. pool_select : gradient[j] < gradient[pool_select + 1]

\* C4 witness: two operators share a maximal magnitude that passes the test
C4_Witness ==
    /\ pc = "branch"
    /\ pool_select > -1
    /\ \E i, j \in 1 .. Len(gradient) :
          /\ i # j
          /\ gradient[i] = gradient[j]
          /\ \A g \in GradientSet : g <= gradient[i]

\* the lowest pool index among the operators whose magnitude is maximal
LowestMaximal ==
    CHOOSE i \in PoolIndices :
        /\ \A k \in PoolIndices : Abs(expectation[k]) <= Abs(expectation[i])
        /\ \A k \in PoolIndices :
              Abs(expectation[k]) = Abs(expectation[i]) => i <= k

C6_ParameterCount ==
    /\ pc = "while" =>
          /\ Len(operators) = Len(params)
          /\ Len(operators) = Len(energies)
    /\ pc = "opt" =>
          /\ Len(operators) = Len(initial_var_params)
          /\ Len(operators) = Len(energies) + 1
          /\ result.nfev > 0 => Len(result.x) = Len(operators)

\* C6 witness: the optimizer is invoked in the second growth round
C6_Witness ==
    /\ pc = "opt"
    /\ Len(operators) = 2
    /\ result.nfev > 0

\* the optimal parameters of the previous round (none before the first)
PreviousOptimum ==
    IF optimal_var_params = None THEN << >> ELSE optimal_var_params[1]

\* C7: the optimizer starts from the previous round's optimal vector, in the
\* same order, with one 0 appended, and every point it evaluates is a whole
\* vector of that length.
C7_WarmStart ==
    pc = "opt" =>
        /\ initial_var_params = Append(PreviousOptimum, 0)
        /\ result.nfev > 0 =>
              /\ DOMAIN var_params = DOMAIN initial_var_params
              /\ DOMAIN result.x = DOMAIN initial_var_params

\* C7 witness: a later round starts from a non-zero optimum and the optimizer
\* moves a parameter of an earlier round
C7_Witness ==
    /\ pc = "opt"
    /\ Len(initial_var_params) = 2
    /\ initial_var_params[1] = 1
    /\ result.nfev > 0
    /\ result.x[1] = 0

\* C8: after the first round, the circuit the pool is ranked against is the
\* ansatz circuit at the previous round's optimal parameters.
C8_RankAtOptimum ==
    (pc = "rank" /\ iteration > 1) =>
        /\ rank_circuit.operators = operators
        /\ rank_circuit.angles = PreviousOptimum

\* C9: a run that ends after at least one growth round exposes the last
\* round's energy and parameters and the circuit built from them.
C9_FinalOutputs ==
    (pc = "done" /\ Len(energies) >= 1) =>
        /\ optimal_energy = Some(energies[Len(energies)])
        /\ optimal_var_params = Some(params)
        /\ optimal_circuit = Some(BuiltCircuit(operators, params))

\* C10: the recorded energies are non-increasing from round to round.
C10_MonotoneEnergy ==
    \A i \in 1 .. (Len(energies) - 1) : energies[i + 1] <= energies[i]

\* C10 witness: a second round that lowered the energy of the first
C10_Witness ==
    /\ Len(energies) >= 2
    /\ energies[2] < energies[1]

(* --------------------- claims C11 - C15: the run ----------------------- *)
\* C11: when every pool operator scores 0 in the first round, the ranker
\* finds no operator, the run ends converged without any growth round, and
\* the energy of the initial circuit is reported as the run's energy.
C11_ZeroGradients ==
    ( /\ pc = "done"
      /\ iteration = 1
      /\ Len(gradient) = PoolSize
      /\ \A g \in GradientSet : g = 0 ) =>
        /\ pool_select = -1
        /\ converged
        /\ operators = << >>
        /\ optimal_energy = Some(Energy(qubit_hamiltonian, circuit))

\* the operator sequence is a strict extension by exactly one element
GrownByOne(old, new) ==
    /\ Len(new) = Len(old) + 1
    /\ SubSeq(new, 1, Len(old)) = old

\* C12: every step either leaves the operator sequence of the ansatz as it
\* is or, in a round that selected an operator, appends that one operator at
\* the end; no operator is removed, replaced or moved.
C12_AnsatzOnlyGrows ==
    [][ \/ pc = "constructed"
        \/ operators' = operators
        \/ /\ pc = "branch"
           /\ pool_select > -1
           /\ GrownByOne(operators, operators')
           /\ operators'[Len(operators')] = pool_select ]_vars

\* C12 witness: two rounds have each appended a different operator
C12_Witness ==
    /\ pc = "while"
    /\ Len(energies) = 2
    /\ Len(operators) = 2
    /\ operators[1] # operators[2]

\* C13: after a backend call has raised in round k, the history of the
\* k - 1 completed rounds is available and the ansatz term count, the
\* parameter vector length and the history length agree.
C13_FailureLeavesLastRound ==
    pc = "raised" =>
        /\ Len(energies) = iteration - 1
        /\ Len(operators) = iteration - 1
        /\ Len(var_params) = iteration - 1

\* C14: when minimize stops at its evaluation cap, the round still
\* completes: the point it returns is accepted, its energy is appended to
\* the history and control goes back to the loop test.
C14_CapNotFatal ==
    [][ (pc = "opt" /\ result.nfev = MaxEvals) =>
            /\ pc' = "while"
            /\ energies' = Append(energies, result.fun)
            /\ params' = result.x
            /\ optimal_energy' = Some(result.fun)
            /\ optimal_var_params' = Some(result.x)
            /\ operators' = operators ]_vars

\* C14 witness: the round after one whose optimization used up its cap has
\* started
C14_Witness ==
    /\ pc = "rank"
    /\ iteration = 2
    /\ Len(energies) = 1
    /\ result.nfev = MaxEvals

\* the selected operator is already a term of the ansatz
Reselected ==
    /\ pc = "branch"
    /\ pool_select > -1
    /\ \E k \in 1 .. Len(operators) : operators[k] = pool_select

MaxSpinOrbitals == 4
\* values of one variational parameter handed in by a caller
AngleVals == {-1, 0, 1}
\* 4 * np.pi of line 162 on the integer scale of the angles: larger than any
\* 2 * |coef|, so that the two branches of the angle never meet
FourPi == 12

\* UCCSD.__init__ lines 51-58, closed shell (spin = 0)
n_occupied == (n_electrons + 1) \div 2
n_virtual == (n_spinorbitals \div 2) - n_occupied
n_singles == n_occupied * n_virtual
n_doubles == (n_singles * (n_singles + 1)) \div 2
n_var_params == n_singles + n_doubles

\* coefficient of Pauli word j in the qubit operator generated from p: a
\* linear combination of the parameters, so that terms cancel for some p
Coef(p, j) ==
    (IF j <= Len(p) THEN p[j] ELSE 0) - (IF j > 1 THEN p[j - 1] ELSE 0)

\* qubit_op.terms.keys() after compress(): the words with a non-zero
\* coefficient
QubitOpTerms(p) == { j \in 1 .. (Len(p) + 1) : Coef(p, j) # 0 }

\* len(pauli_word), the sort key of line 133
WordLen(j) == IF j % 2 = 0 THEN 2 ELSE 4

\* sorted(..., key=len) is stable: equal lengths keep the order of the terms
Before(a, b) ==
    \/ WordLen(a) < WordLen(b)
    \/ (WordLen(a) = WordLen(b) /\ a < b)

RECURSIVE Sorted(_)
Sorted(S) ==
    IF S = {} THEN << >>
    ELSE LET w == CHOOSE w \in S : \A v \in S \ {w} : Before(w, v)
         IN << w >> \o Sorted(S \ {w})

\* rotation angle of the variational gate of a Pauli word
Angle(coef) == IF coef >= 0 THEN 2 * coef ELSE FourPi + 2 * coef

\* build_circuit lines 133-140: the variational gates in visiting order
BuildGates(p) ==
    LET pauli_words == Sorted(QubitOpTerms(p))
    IN [i \in 1 .. Len(pauli_words) |->
           [word |-> pauli_words[i],
            parameter |-> Angle(Coef(p, pauli_words[i]))]]

\* build_circuit line 138: the dict as a set of (pauli_word, i) pairs
BuildMapping(p) ==
    LET pauli_words == Sorted(QubitOpTerms(p))
    IN { << pauli_words[i], i - 1 >> : i \in 1 .. Len(pauli_words) }

Keys(mapping) == { e[1] : e \in mapping }

\* faulty variant of SetVarParams: a vector of the wrong length is cut or
\* padded with zeros to the right length
SetVarParamsFitted(n, v) ==
    [raised |-> FALSE,
     var_params |-> [i \in 1 .. n |-> IF i <= Len(v) THEN v[i] ELSE 0]]

\* set_var_params lines 92-97 for a list argument: the length check, then
\* the value that line 97 assigns
SetVarParams(n, v) ==
    IF Len(v) = n
    THEN [raised |-> FALSE, var_params |-> v]
    ELSE [raised |-> TRUE, var_params |-> << >>]

\* np.ones((n_var_params,)) of line 86
Ones(n) == [i \in 1 .. n |-> 1]

\* list arguments handed in: every vector of the right length, and vectors
\* that are too short or too long
RightVecs(n) == [1 .. n -> AngleVals]
WrongVecs(n) ==
    { [i \in 1 .. k |-> a] : k \in (0 .. (n + 1)) \ {n}, a \in AngleVals }
ArgVecs(n) == RightVecs(n) \cup WrongVecs(n)

\* update_var_params lines 160-162: every term of the operator rewrites the
\* parameter of the gate at the position the mapping holds for it
InPlace(c, mapping, p) ==
    [i \in 1 .. Len(c) |->
        IF \E w \in QubitOpTerms(p) : << w, i - 1 >> \in mapping
        THEN LET w == CHOOSE w \in QubitOpTerms(p) : << w, i - 1 >> \in mapping
             IN [c[i] EXCEPT !.parameter = Angle(Coef(p, w))]
        ELSE c[i]]

\* faulty variant of Updated: the gates are always rewritten in place
UpdatedInPlaceOnly(c, mapping, p) ==
    [circuit |-> InPlace(c, mapping, p), mapping |-> mapping,
     path |-> "in_place"]

\* update_var_params lines 157-162
Updated(c, mapping, p) ==
    IF Keys(mapping) # QubitOpTerms(p)
    THEN [circuit |-> BuildGates(p), mapping |-> BuildMapping(p),
          path |-> "rebuild"]
    ELSE [circuit |-> InPlace(c, mapping, p), mapping |-> mapping,
          path |-> "in_place"]

Call(name, outcome, path, arg_len) ==
    [name |-> name, outcome |-> outcome, path |-> path, arg_len |-> arg_len]

\* no ADAPT solver takes part
NoAdapt ==
    /\ pc = "none"
    /\ max_cycles = 0
    /\ tol = 1
    /\ qubit_hamiltonian = << >>
    /\ converged = FALSE
    /\ iteration = 0
    /\ optimal_energy = None
    /\ optimal_var_params = None
    /\ optimal_circuit = None
    /\ operators = << >>
    /\ var_params = << >>
    /\ circuit = NoCircuit
    /\ initial_var_params = << >>
    /\ energies = << >>
    /\ params = << >>
    /\ pool_select = -1
    /\ gradient = << >>
    /\ rank_circuit = NoCircuit
    /\ result = NoResult
    /\ expectation = << >>
    /\ completion = << >>
    /\ pool_operators = << >>
    /\ fermionic_operators = << >>
    /\ pool_commutators = << >>

\* what a call on the UCCSD object does not touch
outside_uccsd == << adapt_vars, life_vars, job_vars, gen_vars, map_vars,
                    frag_vars >>

\* state after UCCSD.__init__(n_spinorbitals, n_electrons), spin = 0; an odd
\* n_spinorbitals is refused by line 42
UccsdInit ==
    /\ n_spinorbitals \in { k \in 2 .. MaxSpinOrbitals : k % 2 = 0 }
    /\ n_electrons \in { e \in 2 .. n_spinorbitals : e % 2 = 0 }
    /\ uccsd_var_params = None
    /\ uccsd_circuit = None
    /\ pauli_to_angles_mapping = None
    /\ uccsd_call = NoCall
    /\ NoAdapt
    /\ NoLife
    /\ NoJob
    /\ NoGen
    /\ NoMap
    /\ NoFrag

\* set_var_params(var_params), lines 74-98
UccsdSetVarParams ==
    /\ \/ \* None or "ones"
          /\ uccsd_var_params' = Some(Ones(n_var_params))
          /\ uccsd_call' = Call("set_var_params", "returned", "none", -1)
       \/ \* "random"
          \E v \in RightVecs(n_var_params) :
             /\ uccsd_var_params' = Some(v)
             /\ uccsd_call' = Call("set_var_params", "returned", "none", -1)
       \/ \* a keyword that is not supported, lines 83-84
          /\ uccsd_call' = Call("set_var_params", "ValueError", "none", -1)
          /\ UNCHANGED uccsd_var_params
       \/ \* a list
          \E v \in ArgVecs(n_var_params) :
             LET set == SetVarParams(n_var_params, v)
             IN IF set.raised
                THEN /\ uccsd_call' = Call("set_var_params", "ValueError",
                                           "none", Len(v))
                     /\ UNCHANGED uccsd_var_params
                ELSE /\ uccsd_var_params' = Some(set.var_params)
                     /\ uccsd_call' = Call("set_var_params", "returned",
                                           "none", Len(v))
    /\ UNCHANGED << n_spinorbitals, n_electrons, uccsd_circuit,
                    pauli_to_angles_mapping >>
    /\ UNCHANGED outside_uccsd

\* build_circuit(var_params=None), lines 116-145
UccsdBuildCircuit ==
    /\ \/ \* no argument: the current parameters, or the default ones
          LET p == IF uccsd_var_params = None THEN Ones(n_var_params)
                   ELSE uccsd_var_params[1]
          IN /\ uccsd_var_params' = Some(p)
             /\ uccsd_circuit' = Some(BuildGates(p))
             /\ pauli_to_angles_mapping' = Some(BuildMapping(p))
             /\ uccsd_call' = Call("build_circuit", "returned", "rebuild", -1)
       \/ \* a list
          \E v \in ArgVecs(n_var_params) :
             LET set == SetVarParams(n_var_params, v)
             IN IF set.raised
                THEN /\ uccsd_call' = Call("build_circuit", "ValueError",
                                           "none", Len(v))
                     /\ UNCHANGED << uccsd_var_params, uccsd_circuit,
                                     pauli_to_angles_mapping >>
                ELSE /\ uccsd_var_params' = Some(set.var_params)
                     /\ uccsd_circuit' = Some(BuildGates(set.var_params))
                     /\ pauli_to_angles_mapping' =
                            Some(BuildMapping(set.var_params))
                     /\ uccsd_call' = Call("build_circuit", "returned",
                                           "rebuild", Len(v))
    /\ UNCHANGED << n_spinorbitals, n_electrons >>
    /\ UNCHANGED outside_uccsd

\* update_var_params(var_params), lines 147-162
UccsdUpdateVarParams ==
    /\ \E v \in ArgVecs(n_var_params) :
          LET set == SetVarParams(n_var_params, v)
          IN IF set.raised
             THEN /\ uccsd_call' = Call("update_var_params", "ValueError",
                                        "none", Len(v))
                  /\ UNCHANGED << uccsd_var_params, uccsd_circuit,
                                  pauli_to_angles_mapping >>
             ELSE IF pauli_to_angles_mapping = None
             THEN \* line 157 on an object that was never built
                  /\ uccsd_var_params' = Some(set.var_params)
                  /\ uccsd_call' = Call("update_var_params", "AttributeError",
                                        "none", Len(v))
                  /\ UNCHANGED << uccsd_circuit, pauli_to_angles_mapping >>
             ELSE LET u == Updated(uccsd_circuit[1],
                                   pauli_to_angles_mapping[1], set.var_params)
                  IN /\ uccsd_var_params' = Some(set.var_params)
                     /\ uccsd_circuit' = Some(u.circuit)
                     /\ pauli_to_angles_mapping' = Some(u.mapping)
                     /\ uccsd_call' = Call("update_var_params", "returned",
                                           u.path, Len(v))
    /\ UNCHANGED << n_spinorbitals, n_electrons >>
    /\ UNCHANGED outside_uccsd

UccsdNext ==
    \/ UccsdSetVarParams
    \/ UccsdBuildCircuit
    \/ UccsdUpdateVarParams

UccsdSpec == UccsdInit /\ [][UccsdNext]_vars

(* ------------------ claims C16, C17: the UCCSD ansatz ------------------ *)
\* C16: a call update_var_params(p) that returns leaves the circuit that
\* build_circuit(p) produces; when the set of Pauli terms is the one of the
\* last build, the gates stay where that build put them and only their
\* parameters are rewritten, otherwise circuit and mapping are rebuilt.
C16_UpdateEqualsBuild ==
    [][ ( /\ uccsd_call'.name = "update_var_params"
          /\ uccsd_call'.outcome = "returned" ) =>
            /\ uccsd_circuit' = Some(BuildGates(uccsd_var_params'[1]))
            /\ pauli_to_angles_mapping' =
                   Some(BuildMapping(uccsd_var_params'[1]))
            /\ uccsd_call'.path = "in_place" <=>
                   Keys(pauli_to_angles_mapping[1]) =
                       QubitOpTerms(uccsd_var_params'[1])
            /\ uccsd_call'.path = "in_place" =>
                   /\ pauli_to_angles_mapping' = pauli_to_angles_mapping
                   /\ Len(uccsd_circuit'[1]) = Len(uccsd_circuit[1])
                   /\ \A i \in 1 .. Len(uccsd_circuit[1]) :
                          uccsd_circuit'[1][i].word = uccsd_circuit[1][i].word
      ]_vars

\* C16 witness: an in-place update has rewritten the angles of a circuit
\* whose gates are not in the order of the operator's terms
C16_Witness ==
    /\ uccsd_call.name = "update_var_params"
    /\ uccsd_call.outcome = "returned"
    /\ uccsd_call.path = "in_place"
    /\ Len(uccsd_circuit[1]) = 3
    /\ uccsd_circuit[1][1].word > uccsd_circuit[1][2].word
    /\ uccsd_circuit[1][1].parameter > FourPi \div 2

\* C17: set_var_params and update_var_params called with a list whose
\* length is not n_var_params end with ValueError and leave the parameters,
\* the circuit and the mapping as they were.
C17_WrongLengthRefused ==
    [][ ( /\ uccsd_call'.name \in {"set_var_params", "update_var_params"}
          /\ uccsd_call'.arg_len # -1
          /\ uccsd_call'.arg_len # n_var_params ) =>
            /\ uccsd_call'.outcome = "ValueError"
            /\ UNCHANGED << uccsd_var_params, uccsd_circuit,
                            pauli_to_angles_mapping >> ]_vars

\* C17 witness: a built ansatz has refused a vector that is one too long
C17_Witness ==
    /\ uccsd_call.name = "update_var_params"
    /\ uccsd_call.outcome = "ValueError"
    /\ uccsd_call.arg_len = n_var_params + 1
    /\ uccsd_circuit # None
    /\ Len(uccsd_circuit[1]) >= 2

(***************************************************************************)
(* Construction and build of the solvers: ADAPTSolver.__init__,            *)
(* SA_VQESolver.__init__ / build / energy_estimation / simulate            *)
(* (tangelo/algorithms/variational/sa_vqe_solver.py), and the constructor  *)
(* of IterativeQPESolver as its tests describe it.  An option is its key   *)
(* and the kind of value handed in; an object is the set of names of the   *)
(* attributes it holds.                                                    *)
(***************************************************************************)
SolverClasses == {"ADAPTSolver", "SA_VQESolver", "IterativeQPESolver"}

\* the key is not in the dictionary handed to __init__
Absent == "absent"

\* the dictionaries handed to __init__: per key, the kinds of value
OptDicts ==
    [molecule : {Absent, "None", "molecule"},
     qubit_hamiltonian : {Absent, "None", "operator"},
     qubit_mapping : {Absent, "jw"},
     ansatz : {Absent, "None", "Ansatz", "str"},
     ref_states : {Absent, "list"},
     weights : {Absent, "matching", "short"},
     max_cycles : {Absent, "int"},
     dummy : {Absent, "True"}]

OptionKeys == {"molecule", "qubit_hamiltonian", "qubit_mapping", "ansatz",
               "ref_states", "weights", "max_cycles", "dummy"}

\* keys of default_options, among OptionKeys
AdaptOptions == {"molecule", "qubit_hamiltonian", "qubit_mapping", "ansatz",
                 "max_cycles"}
SaVqeOptions == {"molecule", "qubit_hamiltonian", "qubit_mapping", "ansatz",
                 "ref_states", "weights"}
IqpeOptions == {"molecule", "qubit_hamiltonian", "qubit_mapping"}

DefaultOptions(cls) ==
    CASE cls = "ADAPTSolver" -> AdaptOptions
      [] cls = "SA_VQESolver" -> SaVqeOptions
      [] OTHER -> IqpeOptions

\* bool(v) of an option value: None, also as the default of a key that is
\* absent, is false, an object is true
Truthy(v) == v \notin {Absent, "None"}

\* faulty variant of UnknownKeys: unrecognized keys are passed over
UnknownKeysIgnored(cls, d) == {}

\* the keys of opt_dict for which the loop of __init__ raises
UnknownKeys(cls, d) ==
    { k \in OptionKeys : d[k] # Absent /\ k \notin DefaultOptions(cls) }

\* faulty variant of SingleInput: one input or both
SingleInputOrBoth(d) == Truthy(d.molecule) \/ Truthy(d.qubit_hamiltonian)

\* bool(self.molecule) ^ bool(self.qubit_hamiltonian)
SingleInput(d) == Truthy(d.molecule) # Truthy(d.qubit_hamiltonian)

SolverCall(name, outcome) == [name |-> name, outcome |-> outcome]

\* what a call on the solver object does not touch
outside_life == << adapt_vars, uccsd_vars, job_vars, gen_vars, map_vars,
                   frag_vars >>

\* a solver class is about to be instantiated with some options
LifeInit ==
    /\ solver_class \in SolverClasses
    /\ opt_dict \in OptDicts
    /\ life_pc = "new"
    /\ attrs = {}
    /\ solver_call = SolverCall("none", "none")
    /\ backend_called = FALSE
    /\ NoAdapt
    /\ NoUccsd
    /\ NoJob
    /\ NoGen
    /\ NoMap
    /\ NoFrag

\* __init__(opt_dict): an exception leaves no object behind
Construct ==
    /\ life_pc = "new"
    /\ IF UnknownKeys(solver_class, opt_dict) # {}
       THEN /\ solver_call' = SolverCall("__init__", "KeyError")
            /\ life_pc' = "none"
            /\ attrs' = {}
       ELSE IF ~ SingleInput(opt_dict)
       THEN /\ solver_call' = SolverCall("__init__", "ValueError")
            /\ life_pc' = "none"
            /\ attrs' = {}
       ELSE /\ solver_call' = SolverCall("__init__", "returned")
            /\ life_pc' = "constructed"
            /\ attrs' = DefaultOptions(solver_class)
                            \cup {"optimal_energy", "optimal_var_params"}
    /\ UNCHANGED << solver_class, opt_dict, backend_called >>
    /\ UNCHANGED outside_life

\* SA_VQESolver.build, lines 118-225
SaBuild ==
    /\ solver_class = "SA_VQESolver"
    /\ life_pc = "constructed"
    /\ IF Truthy(opt_dict.molecule)
       THEN IF opt_dict.ansatz \in {"None", "str"}
            THEN \* line 188
                 /\ solver_call' = SolverCall("build", "TypeError")
                 /\ UNCHANGED << life_pc, attrs >>
            ELSE IF opt_dict.ref_states = Absent
            THEN \* line 192 iterates None
                 /\ solver_call' = SolverCall("build", "TypeError")
                 /\ attrs' = attrs \cup {"reference_circuits"}
                 /\ UNCHANGED life_pc
            ELSE IF opt_dict.weights = "short"
            THEN \* line 206
                 /\ solver_call' = SolverCall("build", "ValueError")
                 /\ attrs' = attrs \cup {"reference_circuits", "n_states"}
                 /\ UNCHANGED life_pc
            ELSE /\ solver_call' = SolverCall("build", "returned")
                 /\ attrs' = attrs \cup {"reference_circuits", "n_states",
                                         "initial_var_params", "backend"}
                 /\ life_pc' = "built"
       ELSE IF opt_dict.ansatz # "Ansatz"
            THEN \* line 217: neither HEA, VSQS nor an Ansatz instance
                 /\ solver_call' = SolverCall("build", "TypeError")
                 /\ UNCHANGED << life_pc, attrs >>
            ELSE \* lines 220-225 only
                 /\ solver_call' = SolverCall("build", "returned")
                 /\ attrs' = attrs \cup {"initial_var_params", "backend"}
                 /\ life_pc' = "built"
    /\ UNCHANGED << solver_class, opt_dict, backend_called >>
    /\ UNCHANGED outside_life

\* SA_VQESolver.energy_estimation on a built solver, lines 277-288
SaEnergyEstimation ==
    /\ solver_class = "SA_VQESolver"
    /\ life_pc = "built"
    /\ IF "reference_circuits" \notin attrs
       THEN \* line 280 reads an attribute that does not exist
            /\ solver_call' = SolverCall("energy_estimation", "AttributeError")
            /\ UNCHANGED << attrs, backend_called >>
       ELSE /\ solver_call' = SolverCall("energy_estimation", "returned")
            /\ attrs' = attrs \cup {"state_energies"}
            /\ backend_called' = TRUE
    /\ UNCHANGED << solver_class, opt_dict, life_pc >>
    /\ UNCHANGED outside_life

\* SA_VQESolver.simulate, lines 227-242; the optimizer calls
\* energy_estimation at initial_var_params first
SaSimulate ==
    /\ solver_class = "SA_VQESolver"
    /\ life_pc \in {"constructed", "built"}
    /\ IF life_pc = "constructed" /\ opt_dict.ansatz = "None"
       THEN \* line 231: self.ansatz is false, self.backend is not read
            /\ solver_call' = SolverCall("simulate", "RuntimeError")
            /\ UNCHANGED << attrs, backend_called >>
       ELSE IF "backend" \notin attrs
       THEN \* line 231: self.ansatz is true, self.backend does not exist
            /\ solver_call' = SolverCall("simulate", "AttributeError")
            /\ UNCHANGED << attrs, backend_called >>
       ELSE IF "reference_circuits" \notin attrs
       THEN \* line 280 within the first objective evaluation
            /\ solver_call' = SolverCall("simulate", "AttributeError")
            /\ UNCHANGED << attrs, backend_called >>
       ELSE /\ solver_call' = SolverCall("simulate", "returned")
            /\ attrs' = attrs \cup {"state_energies", "optimal_circuit",
                                    "rdms"}
            /\ backend_called' = TRUE
    /\ UNCHANGED << solver_class, opt_dict, life_pc >>
    /\ UNCHANGED outside_life

LifeNext ==
    \/ Construct
    \/ SaBuild
    \/ SaEnergyEstimation
    \/ SaSimulate

LifeSpec == LifeInit /\ [][LifeNext]_vars

(* ------------- claims C18 - C20: construction and build ---------------- *)
\* the options hold a key the class does not recognize
HasUnrecognizedKey ==
    \E k \in OptionKeys :
        opt_dict[k] # Absent /\ k \notin DefaultOptions(solver_class)

\* the option was handed in with an object as its value
Supplied(k) == opt_dict[k] \notin {Absent, "None"}

ExactlyOneInput == Supplied("molecule") # Supplied("qubit_hamiltonian")

\* __init__ raised: no object exists, nothing was built, no backend was
\* called
RefusedWith(error) ==
    /\ solver_call = SolverCall("__init__", error)
    /\ life_pc = "none"
    /\ attrs = {}
    /\ ~ backend_called

\* C18: a solver handed an options key it does not recognize fails in
\* __init__ with KeyError; it is never built and no backend call is made.
C18_UnknownKeyRefused ==
    (life_pc # "new" /\ HasUnrecognizedKey) => RefusedWith("KeyError")

\* C18 witness: the options of the instantiation test, a molecule and an
\* unrecognized key, have been refused
C18_Witness ==
    /\ solver_class = "IterativeQPESolver"
    /\ opt_dict.molecule = "molecule"
    /\ opt_dict.qubit_mapping = "jw"
    /\ opt_dict.dummy = "True"
    /\ RefusedWith("KeyError")

C20_BuiltIsUsable ==
    ( /\ solver_class = "SA_VQESolver"
      /\ life_pc = "built"
      /\ solver_call.name \in {"energy_estimation", "simulate"} ) =>
        solver_call.outcome = "returned"

\* C21: simulate() as the first call on a constructed SA_VQESolver, build()
\* never having been called, ends in RuntimeError and calls no backend.
C21_SimulateUnbuilt ==
    [][ ( /\ solver_class = "SA_VQESolver"
          /\ solver_call = SolverCall("__init__", "returned")
          /\ solver_call'.name = "simulate" ) =>
            /\ solver_call'.outcome = "RuntimeError"
            /\ ~ backend_called' ]_vars

(* ---------------- claims C25, C26, C29: the ADAPT run ------------------ *)
\* C25: the phases of a round are strictly ordered. A ranking evaluation
\* happens only inside rank_pool, one pool operator at a time and at most
\* once per operator; the ansatz grows only when all of them have completed;
\* an objective evaluation happens only after the growth, with no ranking in
\* progress; and no ranking evaluation happens until the optimizer returns.
C25_PhasesOrdered ==
    [][ /\ Len(gradient') > Len(gradient) =>
               /\ pc = "rank" /\ pc' = "rank"
               /\ Len(gradient') = Len(gradient) + 1
               /\ Len(gradient') <= PoolSize
               /\ operators' = operators
               /\ result' = result
        /\ operators' # operators =>
               /\ pc = "branch" /\ pc' = "opt"
               /\ Len(gradient) = PoolSize
               /\ result'.nfev = 0
        /\ result'.nfev > result.nfev =>
               /\ pc = "opt" /\ pc' = "opt"
               /\ gradient = << >>
               /\ Len(initial_var_params) = Len(operators)
               /\ operators' = operators
        /\ pc = "opt" => gradient' = gradient ]_vars

\* C25 witness: the second round has ranked, grown and evaluated its
\* objective once
C25_Witness ==
    /\ pc = "opt"
    /\ iteration = 2
    /\ Len(operators) = 2
    /\ result.nfev = 1

\* C29: when simulate has returned, the run converged or used up its
\* rounds; as many energies are returned as operators were added, one fewer
\* than the rounds started when the run converged through the ranker, and
\* as many as the rounds when the loop test ended it, converged still False.
C29_TerminalCounts ==
    pc = "done" =>
        /\ converged \/ iteration = max_cycles
        /\ Len(energies) = Len(operators)
        /\ converged => Len(energies) = iteration - 1
        /\ ~ converged =>
               (Len(energies) = iteration /\ iteration = max_cycles)

\* C29 witness: a run that grew once and converged in its second ranking
C29_Witness ==
    /\ pc = "done"
    /\ converged
    /\ iteration = 2
    /\ Len(energies) = 1
    /\ Len(operators) = 1

\* the three lists of the pool have one entry per generator, at the same
\* position, the commutator being the one of the Hamiltonian with it
PoolAligned ==
    /\ Len(pool_operators) = PoolSize
    /\ Len(fermionic_operators) = PoolSize
    /\ Len(pool_commutators) = PoolSize
    /\ \A i \in 1 .. PoolSize :
          /\ pool_commutators[i].element = pool_operators[i]
          /\ pool_commutators[i].hamiltonian = qubit_hamiltonian
          /\ fermionic_operators[i] = pool_operators[i]

\* C26: once build() has returned, no step changes the pool or its
\* commutators, the three lists stay aligned, and the operator a round adds
\* is the one at the position rank_pool returned (Python position
\* pool_select, counted from 0).
C26_PoolStable ==
    [][ pc # "constructed" =>
            /\ UNCHANGED pool_vars
            /\ PoolAligned
            /\ operators' # operators =>
                   /\ operators'[Len(operators')] =
                          pool_operators[pool_select + 1]
                   /\ pool_commutators[pool_select + 1].element =
                          operators'[Len(operators')]
                   /\ gradient[pool_select + 1] = Max(gradient) ]_vars

\* C26 witness: the second round has added the pool's last operator after
\* the first round added its first
C26_Witness ==
    /\ pc = "opt"
    /\ operators = << pool_operators[1], pool_operators[PoolSize] >>
    /\ PoolAligned

(***************************************************************************)
(* Retrieval of a job's results from the cloud service, job_result and     *)
(* job_cancel of tangelo/linq/qpu_connection/qemist_cloud_connection.py.   *)
(* The service is the status of the job and the set of cancelled jobs.     *)
(***************************************************************************)
\* largest job id handed out by the service
MaxJobId == 3

\* answers typed at the prompt of line 116
Commands == {"cancel", "Cancel", "CANCEL", "", "no"}

\* command.lower()
Lower(c) == IF c \in {"cancel", "Cancel", "CANCEL"} THEN "cancel" ELSE c

\* what a step on the job does not touch
outside_job == << adapt_vars, uccsd_vars, life_vars, gen_vars, map_vars,
                  frag_vars >>

\* a job has been submitted; job_result has not been called yet
JobInit ==
    /\ job_pc = "idle"
    /\ qemist_cloud_job_id \in 1 .. MaxJobId
    /\ util_available \in BOOLEAN
    /\ job_state \in {"ready", "in_progress"}
    /\ monitor = "none"
    /\ command = ""
    /\ cancelled = {}
    /\ retrieved = FALSE
    /\ job_raised = "none"
    /\ NoAdapt
    /\ NoUccsd
    /\ NoLife
    /\ NoGen
    /\ NoMap
    /\ NoFrag

\* the service runs the job
JobProgress ==
    /\ job_state \in {"ready", "in_progress"}
    /\ job_state' = IF job_state = "ready" THEN "in_progress" ELSE "complete"
    /\ UNCHANGED << job_pc, qemist_cloud_job_id, util_available, monitor,
                    command, cancelled, retrieved, job_raised >>
    /\ UNCHANGED outside_job

\* job_result is called, lines 108-112: without the util module the name
\* lookup raises NameError, which is turned into ModuleNotFoundError
JobResultEnter ==
    /\ job_pc = "idle"
    /\ IF util_available
       THEN /\ job_pc' = "monitoring"
            /\ monitor' = "running"
            /\ UNCHANGED job_raised
       ELSE /\ job_pc' = "raised"
            /\ monitor' = "raised"
            /\ job_raised' = "ModuleNotFoundError"
    /\ UNCHANGED << qemist_cloud_job_id, util_available, job_state, command,
                    cancelled, retrieved >>
    /\ UNCHANGED outside_job

\* util.monitor_problem_status returns once the job is complete; control
\* reaches line 133
MonitorReturn ==
    /\ job_pc = "monitoring"
    /\ job_state = "complete"
    /\ monitor' = "returned"
    /\ job_pc' = "retrieve"
    /\ UNCHANGED << qemist_cloud_job_id, util_available, job_state, command,
                    cancelled, retrieved, job_raised >>
    /\ UNCHANGED outside_job

\* the user interrupts the monitoring, lines 114-117
MonitorInterrupt ==
    /\ job_pc = "monitoring"
    /\ monitor' = "interrupted"
    /\ job_pc' = "prompt"
    /\ UNCHANGED << qemist_cloud_job_id, util_available, job_state, command,
                    cancelled, retrieved, job_raised >>
    /\ UNCHANGED outside_job

\* the monitoring raises another exception, lines 125-129: it is raised
\* again
MonitorError ==
    /\ job_pc = "monitoring"
    /\ monitor' = "raised"
    /\ job_pc' = "raised"
    /\ job_raised' = "Exception"
    /\ UNCHANGED << qemist_cloud_job_id, util_available, job_state, command,
                    cancelled, retrieved >>
    /\ UNCHANGED outside_job

\* lines 116-123: the answer is read; on "cancel" job_cancel is called
\* without its argument qemist_cloud_job_id (line 119), which is a
\* TypeError before job_cancel runs; on any other answer the handler ends
\* and control goes on to line 133
Answer ==
    /\ job_pc = "prompt"
    /\ \E c \in Commands :
          /\ command' = c
          /\ IF Lower(c) = "cancel"
             THEN /\ job_pc' = "raised"
                  /\ job_raised' = "TypeError"
             ELSE /\ job_pc' = "retrieve"
                  /\ UNCHANGED job_raised
    /\ UNCHANGED << qemist_cloud_job_id, util_available, job_state, monitor,
                    cancelled, retrieved >>
    /\ UNCHANGED outside_job

\* lines 133-139: the results are asked for and parsed; for a job that is
\* not complete the answer of the service may or may not hold results
Retrieve ==
    /\ job_pc = "retrieve"
    /\ retrieved' = TRUE
    /\ \/ /\ job_pc' = "returned"
          /\ UNCHANGED job_raised
       \/ /\ job_state # "complete"
          /\ job_pc' = "raised"
          /\ job_raised' = "KeyError"
    /\ UNCHANGED << qemist_cloud_job_id, util_available, job_state, monitor,
                    command, cancelled >>
    /\ UNCHANGED outside_job

\* job_cancel(qemist_cloud_job_id) called by the user, lines 75-92; the job
\* is stopped if it has not completed
JobCancel ==
    /\ job_pc = "idle"
    /\ IF util_available
       THEN /\ cancelled' = cancelled \cup {qemist_cloud_job_id}
            /\ job_state' = IF job_state = "complete" THEN job_state
                            ELSE "cancelled"
            /\ job_pc' = "cancel_returned"
            /\ UNCHANGED job_raised
       ELSE /\ job_pc' = "raised"
            /\ job_raised' = "ModuleNotFoundError"
            /\ UNCHANGED << cancelled, job_state >>
    /\ UNCHANGED << qemist_cloud_job_id, util_available, monitor, command,
                    retrieved >>
    /\ UNCHANGED outside_job

JobNext ==
    \/ JobProgress
    \/ JobResultEnter
    \/ MonitorReturn
    \/ MonitorInterrupt
    \/ MonitorError
    \/ Answer
    \/ Retrieve
    \/ JobCancel

JobSpec == JobInit /\ [][JobNext]_vars

(* ------------------ claims C22, C23: job_result ------------------------ *)
\* C22: the results of the job are asked for only after the monitoring has
\* returned normally; when it was interrupted or raised they are not.
C22_RetrieveAfterMonitor ==
    (retrieved \/ job_pc = "retrieve") => monitor = "returned"

\* C23: when the monitoring was interrupted and the answer is 'cancel', in
\* any case, the job with the given id is cancelled and job_cancel returns;
\* any other answer leaves the job running.
C23_CancelOnRequest ==
    [][ (job_pc = "prompt" /\ job_pc' # "prompt") =>
            IF Lower(command') = "cancel"
            THEN /\ qemist_cloud_job_id \in cancelled'
                 /\ job_raised' = "none"
            ELSE /\ cancelled' = cancelled
                 /\ job_state' = job_state ]_vars

(* ---------------- the UCCGSD excitation generator ---------------------- *)
\* largest number of spatial orbitals a call is made for
MaxOrbitals == 3
\* longest list of coefficients a caller passes
MaxCoeffs == 3

\* single_coeffs / double_coeffs: None, or a list, of which only the length
\* matters to the generator
CoeffArgs == {None} \cup {Some(k) : k \in 0 .. MaxCoeffs}

\* get_singles_number(n_orbitals)
GetSinglesNumber(n_orbitals) == (n_orbitals * (n_orbitals - 1)) \div 2

\* get_doubles_number(n_orbitals)
GetDoublesNumber(n_orbitals) ==
    (n_orbitals * (n_orbitals * n_orbitals * n_orbitals
                   + 2 * n_orbitals * n_orbitals - n_orbitals - 2)) \div 8

\* get_coeffs raises ValueError for a list of the wrong length
GetCoeffsRaises(nq, sc, dc) ==
    \/ sc # None /\ sc[1] # GetSinglesNumber(nq \div 2)
    \/ dc # None /\ dc[1] # GetDoublesNumber(nq \div 2)

\* get_coeffs: the singles coefficients followed by the doubles ones, random
\* ones where none were passed; a coefficient is named by its position in
\* the concatenation
GetCoeffs(nq, sc, dc) ==
    LET ns == IF sc = None THEN GetSinglesNumber(nq \div 2) ELSE sc[1]
        nd == IF dc = None THEN GetDoublesNumber(nq \div 2) ELSE dc[1]
    IN  [i \in 1 .. ns + nd |-> i]

\* get_spin_ordered: spin-orbital indices of the orbitals orbs, all spin up
\* then all spin down when ud, alternating otherwise
GetSpinOrdered(n_orbs, orbs, ud) ==
    [up   |-> [i \in 1 .. Len(orbs) |->
                  IF ud THEN orbs[i] ELSE 2 * orbs[i]],
     down |-> [i \in 1 .. Len(orbs) |->
                  IF ud THEN n_orbs + orbs[i] ELSE 2 * orbs[i] + 1]]

\* a group of terms: the function that wrote it, the orbitals it acts on
\* and the spin-orbital indices its terms are written with
Group(kind, n_orbs, orbs, ud) ==
    [kind |-> kind, orbs |-> orbs,
     up   |-> GetSpinOrdered(n_orbs, orbs, ud).up,
     down |-> GetSpinOrdered(n_orbs, orbs, ud).down]

\* faulty variant of DoublesGroup: the fifth grouping takes both orders of
\* its two orbitals
DoublesGroupBothOrders(pp, qq, rr, ss) ==
    IF pp < qq /\ pp < rr /\ pp < ss /\ rr < ss /\ qq # rr /\ qq # ss
    THEN "get_group_1_2"
    ELSE IF qq = rr /\ pp < ss /\ pp # qq /\ ss # qq
    THEN "get_group_1_2"
    ELSE IF pp = qq /\ qq # rr /\ rr # ss /\ ss # pp /\ rr < ss
    THEN "get_group_3_4"
    ELSE IF pp = qq /\ qq = rr /\ rr # ss
    THEN "get_group_3_4"
    ELSE IF pp = qq /\ qq # rr /\ rr = ss
    THEN "get_group_5"
    ELSE "continue"

\* the branch get_doubles takes for the orbitals pp, qq, rr, ss
DoublesGroup(pp, qq, rr, ss) ==
    IF pp < qq /\ pp < rr /\ pp < ss /\ rr < ss /\ qq # rr /\ qq # ss
    THEN "get_group_1_2"
    ELSE IF qq = rr /\ pp < ss /\ pp # qq /\ ss # qq
    THEN "get_group_1_2"
    ELSE IF pp = qq /\ qq # rr /\ rr # ss /\ ss # pp /\ rr < ss
    THEN "get_group_3_4"
    ELSE IF pp = qq /\ qq = rr /\ rr # ss
    THEN "get_group_3_4"
    ELSE IF pp = qq /\ qq # rr /\ rr = ss /\ pp < ss
    THEN "get_group_5"
    ELSE "continue"

\* the spin ordering uccgsd_generator asks get_all_excitations for
ExcitationsUpDown(ud) == FALSE

\* what a step of the generator does not touch
outside_gen == << adapt_vars, uccsd_vars, life_vars, job_vars, map_vars,
                  frag_vars >>

\* uccgsd_generator is about to be called
GenInit ==
    /\ gen_pc = "start"
    /\ n_qubits \in 0 .. 2 * MaxOrbitals
    /\ up_down \in BOOLEAN
    /\ single_coeffs \in CoeffArgs
    /\ double_coeffs \in CoeffArgs
    /\ coeffs = << >>
    /\ cursor = 0
    /\ all_terms = << >>
    /\ all_operators = << >>
    /\ gen_raised = "none"
    /\ NoAdapt
    /\ NoUccsd
    /\ NoLife
    /\ NoJob
    /\ NoMap
    /\ NoFrag

\* uccgsd_generator up to its call of get_all_excitations: the checks of
\* n_qubits, then get_coeffs
UccgsdEnter ==
    /\ gen_pc = "start"
    /\ IF \/ n_qubits < 2
          \/ n_qubits % 2 # 0
          \/ GetCoeffsRaises(n_qubits, single_coeffs, double_coeffs)
       THEN /\ gen_pc' = "raised"
            /\ gen_raised' = "ValueError"
            /\ UNCHANGED coeffs
       ELSE /\ gen_pc' = "get_singles"
            /\ coeffs' = GetCoeffs(n_qubits, single_coeffs, double_coeffs)
            /\ UNCHANGED gen_raised
    /\ UNCHANGED << n_qubits, up_down, single_coeffs, double_coeffs, cursor,
                    all_terms, all_operators >>
    /\ UNCHANGED outside_gen

\* one pass of the loop of get_singles over the pairs (pp, qq)
GetSinglesStep ==
    LET n_orbs == n_qubits \div 2
        pp == cursor \div n_orbs
        qq == cursor % n_orbs
    IN  /\ gen_pc = "get_singles"
        /\ cursor < n_orbs * n_orbs
        /\ all_terms' =
              IF qq <= pp THEN all_terms
              ELSE Append(all_terms, Group("get_singles", n_orbs,
                                           << pp, qq >>,
                                           ExcitationsUpDown(up_down)))
        /\ cursor' = cursor + 1
        /\ UNCHANGED << gen_pc, n_qubits, up_down, single_coeffs,
                        double_coeffs, coeffs, all_operators, gen_raised >>
        /\ UNCHANGED outside_gen

\* get_singles returns; get_all_excitations calls get_doubles
GetSinglesReturn ==
    LET n_orbs == n_qubits \div 2
    IN  /\ gen_pc = "get_singles"
        /\ cursor = n_orbs * n_orbs
        /\ gen_pc' = "get_doubles"
        /\ cursor' = 0
        /\ UNCHANGED << n_qubits, up_down, single_coeffs, double_coeffs,
                        coeffs, all_terms, all_operators, gen_raised >>
        /\ UNCHANGED outside_gen

\* one pass of the loop of get_doubles over the quadruples (pp, qq, rr, ss)
GetDoublesStep ==
    LET n_orbs == n_qubits \div 2
        pp == cursor \div (n_orbs * n_orbs * n_orbs)
        qq == (cursor \div (n_orbs * n_orbs)) % n_orbs
        rr == (cursor \div n_orbs) % n_orbs
        ss == cursor % n_orbs
        kind == DoublesGroup(pp, qq, rr, ss)
    IN  /\ gen_pc = "get_doubles"
        /\ cursor < n_orbs * n_orbs * n_orbs * n_orbs
        /\ all_terms' =
              IF kind = "continue" THEN all_terms
              ELSE Append(all_terms, Group(kind, n_orbs,
                                           << pp, qq, rr, ss >>,
                                           ExcitationsUpDown(up_down)))
        /\ cursor' = cursor + 1
        /\ UNCHANGED << gen_pc, n_qubits, up_down, single_coeffs,
                        double_coeffs, coeffs, all_operators, gen_raised >>
        /\ UNCHANGED outside_gen

\* get_doubles and get_all_excitations return: the singles followed by the
\* doubles
GetDoublesReturn ==
    LET n_orbs == n_qubits \div 2
    IN  /\ gen_pc = "get_doubles"
        /\ cursor = n_orbs * n_orbs * n_orbs * n_orbs
        /\ gen_pc' = "pair"
        /\ cursor' = 0
        /\ UNCHANGED << n_qubits, up_down, single_coeffs, double_coeffs,
                        coeffs, all_terms, all_operators, gen_raised >>
        /\ UNCHANGED outside_gen

\* one pass of the loop of uccgsd_generator over the groups: the terms of
\* group index are multiplied by coeffs[index]
PairStep ==
    /\ gen_pc = "pair"
    /\ cursor < Len(all_terms)
    /\ IF cursor + 1 > Len(coeffs)
       THEN /\ gen_pc' = "raised"
            /\ gen_raised' = "IndexError"
            /\ UNCHANGED << cursor, all_operators >>
       ELSE /\ all_operators' =
                  Append(all_operators, [group |-> all_terms[cursor + 1],
                                         coeff |-> coeffs[cursor + 1]])
            /\ cursor' = cursor + 1
            /\ UNCHANGED << gen_pc, gen_raised >>
    /\ UNCHANGED << n_qubits, up_down, single_coeffs, double_coeffs, coeffs,
                    all_terms >>
    /\ UNCHANGED outside_gen

\* uccgsd_generator returns all_operators
UccgsdReturn ==
    /\ gen_pc = "pair"
    /\ cursor = Len(all_terms)
    /\ gen_pc' = "returned"
    /\ UNCHANGED << n_qubits, up_down, single_coeffs, double_coeffs, coeffs,
                    cursor, all_terms, all_operators, gen_raised >>
    /\ UNCHANGED outside_gen

GenNext ==
    \/ UccgsdEnter
    \/ GetSinglesStep
    \/ GetSinglesReturn
    \/ GetDoublesStep
    \/ GetDoublesReturn
    \/ PairStep
    \/ UccgsdReturn

GenSpec == GenInit /\ [][GenNext]_vars

(* --------------- claims C24, C27: uccgsd_generator --------------------- *)
\* the spin-orbital indices of a group follow the convention ud names
FollowsConvention(g, n_orbs, ud) ==
    \A i \in 1 .. Len(g.orbs) :
        /\ g.up[i] = IF ud THEN g.orbs[i] ELSE 2 * g.orbs[i]
        /\ g.down[i] = IF ud THEN n_orbs + g.orbs[i] ELSE 2 * g.orbs[i] + 1

\* C24: the operators uccgsd_generator returns are written with the spin
\* ordering its argument up_down asks for: orbital p has up index p and down
\* index n_orbs + p when up_down, and 2p and 2p + 1 otherwise.
C24_SpinOrdering ==
    gen_pc = "returned" =>
        \A k \in 1 .. Len(all_operators) :
            FollowsConvention(all_operators[k].group, n_qubits \div 2,
                              up_down)

\* C27: for n orbitals get_all_excitations enumerates n(n-1)/2 groups of
\* singles followed by n(n^3 + 2n^2 - n - 2)/8 groups of doubles, the pairing
\* never runs out of coefficients, and the operators returned use every
\* coefficient of get_coeffs exactly once.
C27_CountsAgree ==
    LET n == n_qubits \div 2
        singles == {k \in 1 .. Len(all_terms) :
                        all_terms[k].kind = "get_singles"}
    IN  /\ gen_raised # "IndexError"
        /\ gen_pc \in {"pair", "returned"} =>
              /\ singles = 1 .. ((n * (n - 1)) \div 2)
              /\ Len(all_terms) - Cardinality(singles) =
                    (n * (n * n * n + 2 * n * n - n - 2)) \div 8
              /\ Len(coeffs) = Len(all_terms)
        /\ gen_pc = "returned" =>
              /\ Len(all_operators) = Len(coeffs)
              /\ \A k \in 1 .. Len(all_operators) :
                    /\ all_operators[k].coeff = coeffs[k]
                    /\ all_operators[k].group = all_terms[k]
              /\ \A j, k \in 1 .. Len(coeffs) :
                    coeffs[j] = coeffs[k] => j = k

C27_Witness ==
    /\ gen_pc = "returned"
    /\ n_qubits = 2 * MaxOrbitals
    /\ Len(all_operators) > MaxOrbitals

(* ------------- make_up_then_down: reordering of the modes -------------- *)
\* largest mode index of an input operator
MaxMode == 3

\* a factor of a term: (mode index, 1 for creation and 0 for annihilation)
Factors == (0 .. MaxMode) \X {0, 1}

\* the terms of the input operators: the identity term, one ladder operator
\* or a product of two
Terms == {<< >>} \cup {<< f >> : f \in Factors}
                 \cup {<< f, g >> : f, g \in Factors}

\* the coefficients of the terms of the input operators
TermCoefs == {-1, 1}

\* the input operators: the dictionary terms of a FermionOperator with no,
\* one or two terms, from a term to its coefficient
FermionOperators ==
    UNION {[T -> TermCoefs] : T \in {{}} \cup {{t, u} : t, u \in Terms}}

\* the values of the argument n_spinorbitals
SpinOrbitalArgs == {None} \cup {Some(n) : n \in 0 .. MaxMode + 2}

\* the mode indices the terms of an operator address
Modes(op) == UNION {{t[k][1] : k \in 1 .. Len(t)} : t \in DOMAIN op}

\* largest element of a non-empty set of numbers
MaxOf(S) == CHOOSE m \in S : \A x \in S : x <= m

\* faulty variant of Remapped: the odd modes are not moved behind the even
\* ones
RemappedHalved(n) == [i \in 0 .. n - 1 |-> i \div 2]

\* the new mode register: mode i goes to i // 2, and an odd mode ceil(n / 2)
\* further
Remapped(n) ==
    [i \in 0 .. n - 1 |->
        IF i % 2 = 1 THEN i \div 2 + (n + 1) \div 2 ELSE i \div 2]

\* a term with its modes relabelled
NewTerm(term, register) ==
    [k \in 1 .. Len(term) |-> << register[term[k][1]], term[k][2] >>]

RECURSIVE SumOver(_, _)
\* sum of the coefficients of the terms S of op
SumOver(op, S) ==
    IF S = {} THEN 0
    ELSE LET t == CHOOSE u \in S : TRUE
         IN  op[t] + SumOver(op, S \ {t})

\* the operator built by adding the relabelled terms one by one: the
\* coefficients of terms that become equal add up, and a term whose
\* coefficient becomes zero is dropped
NewOperator(op, register) ==
    LET into(nt) == {t \in DOMAIN op : NewTerm(t, register) = nt}
        images == {NewTerm(t, register) : t \in DOMAIN op}
        kept == {nt \in images : SumOver(op, into(nt)) # 0}
    IN  [nt \in kept |-> SumOver(op, into(nt))]

\* what a step of the mapping does not touch
outside_map == << adapt_vars, uccsd_vars, life_vars, job_vars, gen_vars,
                  frag_vars >>

\* fermion_to_qubit_mapping is about to be called
MapInit ==
    /\ map_pc = "start"
    /\ up_then_down \in BOOLEAN
    /\ map_n_spinorbitals \in SpinOrbitalArgs
    /\ fermion_operator \in FermionOperators
    /\ remapped = << >>
    /\ new_operator = << >>
    /\ map_raised = "none"
    /\ NoAdapt
    /\ NoUccsd
    /\ NoLife
    /\ NoJob
    /\ NoGen
    /\ NoFrag

\* fermion_to_qubit_mapping up to the encoding: the reordering is asked for
\* only with up_then_down, and needs n_spinorbitals
FermionToQubitMapping ==
    /\ map_pc = "start"
    /\ IF up_then_down
       THEN IF map_n_spinorbitals = None
            THEN /\ map_pc' = "raised"
                 /\ map_raised' = "ValueError"
                 /\ UNCHANGED new_operator
            ELSE /\ map_pc' = "make_up_then_down"
                 /\ UNCHANGED << new_operator, map_raised >>
       ELSE /\ map_pc' = "encoding"
            /\ new_operator' = fermion_operator
            /\ UNCHANGED map_raised
    /\ UNCHANGED << up_then_down, map_n_spinorbitals, fermion_operator,
                    remapped >>
    /\ UNCHANGED outside_map

\* make_up_then_down(fermion_operator, n_spinorbitals); max() of no mode at
\* all raises ValueError as well
MakeUpThenDown ==
    LET n == map_n_spinorbitals[1]
    IN  /\ map_pc = "make_up_then_down"
        /\ IF \/ n % 2 # 0
              \/ Modes(fermion_operator) = {}
              \/ MaxOf(Modes(fermion_operator)) + 1 > n
           THEN /\ map_pc' = "raised"
                /\ map_raised' = "ValueError"
                /\ UNCHANGED << remapped, new_operator >>
           ELSE /\ map_pc' = "encoding"
                /\ remapped' = Remapped(n)
                /\ new_operator' = NewOperator(fermion_operator, Remapped(n))
                /\ UNCHANGED map_raised
        /\ UNCHANGED << up_then_down, map_n_spinorbitals, fermion_operator >>
        /\ UNCHANGED outside_map

MapNext ==
    \/ FermionToQubitMapping
    \/ MakeUpThenDown

MapSpec == MapInit /\ [][MapNext]_vars

(* ------------------ claim C28: make_up_then_down ----------------------- *)
\* make_up_then_down has relabelled the operator
Relabelled == map_pc = "encoding" /\ up_then_down

\* C28: when make_up_then_down relabels an operator, n_spinorbitals = n is
\* even and no mode of the operator is n or more; the relabelling is a
\* bijection of 0..n-1 that sends 2p to p and 2p+1 to n/2 + p, so every
\* spin-up mode precedes every spin-down mode, and the new operator has the
\* terms of the old one, relabelled, with their coefficients.  With an odd
\* n, or an operator with a mode of n or more, the call gives ValueError.
C28_UpThenDown ==
    LET n == map_n_spinorbitals[1]
        half == n \div 2
        f(t) == [k \in 1 .. Len(t) |-> << remapped[t[k][1]], t[k][2] >>]
    IN  /\ Relabelled =>
            /\ n % 2 = 0
            /\ \A m \in Modes(fermion_operator) : m < n
            /\ DOMAIN remapped = 0 .. n - 1
            /\ {remapped[i] : i \in 0 .. n - 1} = 0 .. n - 1
            /\ \A p \in 0 .. half - 1 :
                  /\ remapped[2 * p] = p
                  /\ remapped[2 * p + 1] = half + p
            /\ \A i, j \in 0 .. n - 1 :
                  (i % 2 = 0 /\ j % 2 = 1) => remapped[i] < remapped[j]
            /\ DOMAIN new_operator = {f(t) : t \in DOMAIN fermion_operator}
            /\ \A t \in DOMAIN fermion_operator :
                  new_operator[f(t)] = fermion_operator[t]
        /\ ( /\ map_pc \in {"encoding", "raised"}
             /\ up_then_down
             /\ map_n_spinorbitals # None
             /\ \/ n % 2 # 0
                \/ \E m \in Modes(fermion_operator) : m >= n )
           => map_raised = "ValueError"

C28_Witness ==
    /\ Relabelled
    /\ map_n_spinorbitals = Some(4)
    /\ \E t \in DOMAIN fermion_operator :
          /\ Len(t) = 2
          /\ t[1][1] = 1
          /\ t[2][1] = 2

(* ------------------- Fragment of the ONIOM solver ---------------------- *)
\* largest number of calls of simulate() on one Fragment
MaxSimulate == 2
\* number of geometries update_geometry is called with
MaxGeometry == 2

\* the energies a solver returns
EnergyVals == {1, 2}

\* the keys an option dictionary may hold
KeySets == SUBSET {"basis", "frozen_orbitals"}

\* str.upper() on the solver names passed
Upper(name) ==
    CASE name = "rhf" -> "RHF"
      [] name = "ccsd" -> "CCSD"
      [] OTHER -> name

\* the solvers get_energy knows
Implemented == {"RHF", "CCSD", "FCI", "MINDO3", "VQE"}

\* faulty variant of Consumed: the key is deleted from the dictionary itself
ConsumedInPlace(d, id, rest) ==
    [x \in DOMAIN d \cup {rest} |->
        IF x \in {id, rest} THEN d[id] \ {"basis"} ELSE d[x]]

\* {i: options[i] for i in options if i != "basis"}: a new dictionary rest
\* without the key, the dictionary id left as it is
Consumed(d, id, rest) ==
    [x \in DOMAIN d \cup {rest} |->
        IF x = rest THEN d[id] \ {"basis"} ELSE d[x]]

\* get_mol(basis): a molecule built at the geometry of the fragment
GetMol(id) == Some([basis_of |-> id, built_at |-> geometry,
                    geom |-> geometry])

\* set_geom_(new_geometry, inplace=True) on a molecule, if there is one
SetGeom(mol, new_geometry) ==
    IF mol = None THEN mol
    ELSE Some([mol[1] EXCEPT !.geom = new_geometry])

\* no call of simulate() yet
NoSimulate == [count |-> 0, outcome |-> "none", e_low |-> 0, e_high |-> 0,
               value |-> None, geometry |-> None]

\* what a step on the Fragment does not touch
outside_frag == << adapt_vars, uccsd_vars, life_vars, job_vars, gen_vars,
                  map_vars >>

\* state after Fragment.__init__: options not passed are the default
\* dictionary, one for both; a caller may pass one dictionary for both
FragInit ==
    /\ frag_pc = "constructed"
    /\ solver_low \in {Upper(name) : name \in {"rhf", "XYZ"}}
    /\ solver_high \in {None} \cup {Some(Upper(name)) :
                                        name \in {"ccsd", "XYZ"}}
    /\ options_low \in {"default", "user_low", "user_both"}
    /\ options_high \in {"default", "user_high", "user_both"}
    /\ (options_low = "user_both") = (options_high = "user_both")
    /\ dicts \in {d \in [{"default", options_low, options_high} -> KeySets] :
                     d["default"] = {"basis"}}
    /\ geometry = None
    /\ mol_low = None
    /\ mol_high = None
    /\ e_fragment = None
    /\ solvers = << >>
    /\ get_mol_calls = [low |-> 0, high |-> 0]
    /\ frag_call = NoSimulate
    /\ NoAdapt
    /\ NoUccsd
    /\ NoLife
    /\ NoJob
    /\ NoGen
    /\ NoMap

\* Fragment.simulate(), lines 68-102; an exception leaves the assignments
\* made before it
Simulate ==
    LET build_low == mol_low = None
        key_low == "basis" \in dicts[options_low]
        d1 == IF build_low /\ key_low
              THEN Consumed(dicts, options_low, "low_rest") ELSE dicts
        o1 == IF build_low /\ key_low THEN "low_rest" ELSE options_low
        m1 == IF build_low /\ key_low THEN GetMol(options_low) ELSE mol_low
        c1 == IF build_low /\ key_low THEN 1 ELSE 0
        low_ok == solver_low \in Implemented
        high == solver_high # None
        build_high == mol_high = None
        key_high == "basis" \in d1[options_high]
        d2 == IF build_high /\ key_high
              THEN Consumed(d1, options_high, "high_rest") ELSE d1
        o2 == IF build_high /\ key_high THEN "high_rest" ELSE options_high
        m2 == IF build_high /\ key_high THEN GetMol(options_high)
              ELSE mol_high
        c2 == IF build_high /\ key_high THEN 1 ELSE 0
        high_ok == solver_high[1] \in Implemented
        call(outcome, el, eh, v) ==
            [count |-> frag_call.count + 1, outcome |-> outcome,
             e_low |-> el, e_high |-> eh, value |-> v,
             geometry |-> geometry]
    IN  /\ frag_pc = "constructed"
        /\ frag_call.count < MaxSimulate
        /\ IF build_low /\ ~key_low
           THEN \* self.options_low["basis"] raises
                /\ frag_call' = call("KeyError", 0, 0, None)
                /\ UNCHANGED << options_low, options_high, dicts, mol_low,
                                mol_high, e_fragment, solvers,
                                get_mol_calls >>
           ELSE IF ~low_ok
           THEN \* get_energy of the low accuracy solver raises
                /\ frag_call' = call("NotImplementedError", 0, 0, None)
                /\ options_low' = o1
                /\ dicts' = d1
                /\ mol_low' = m1
                /\ get_mol_calls' =
                      [get_mol_calls EXCEPT !.low = @ + c1]
                /\ UNCHANGED << options_high, mol_high, e_fragment,
                                solvers >>
           ELSE \E e_low \in EnergyVals :
                IF ~high
                THEN /\ frag_call' = call("returned", e_low, 0,
                                          Some(0 + e_low))
                     /\ e_fragment' = Some(0 + e_low)
                     /\ options_low' = o1
                     /\ dicts' = d1
                     /\ mol_low' = m1
                     /\ solvers' = Append(solvers, solver_low)
                     /\ get_mol_calls' =
                           [get_mol_calls EXCEPT !.low = @ + c1]
                     /\ UNCHANGED << options_high, mol_high >>
                ELSE IF build_high /\ ~key_high
                THEN \* self.options_high["basis"] raises
                     /\ frag_call' = call("KeyError", e_low, 0, None)
                     /\ options_low' = o1
                     /\ dicts' = d1
                     /\ mol_low' = m1
                     /\ solvers' = Append(solvers, solver_low)
                     /\ get_mol_calls' =
                           [get_mol_calls EXCEPT !.low = @ + c1]
                     /\ UNCHANGED << options_high, mol_high, e_fragment >>
                ELSE IF ~high_ok
                THEN \* get_energy of the high accuracy solver raises
                     /\ frag_call' = call("NotImplementedError", e_low, 0,
                                          None)
                     /\ options_low' = o1
                     /\ options_high' = o2
                     /\ dicts' = d2
                     /\ mol_low' = m1
                     /\ mol_high' = m2
                     /\ solvers' = Append(solvers, solver_low)
                     /\ get_mol_calls' =
                           [low |-> get_mol_calls.low + c1,
                            high |-> get_mol_calls.high + c2]
                     /\ UNCHANGED e_fragment
                ELSE \E e_high \in EnergyVals :
                     /\ frag_call' = call("returned", e_low, e_high,
                                          Some(e_high + (-1) * e_low))
                     /\ e_fragment' = Some(e_high + (-1) * e_low)
                     /\ options_low' = o1
                     /\ options_high' = o2
                     /\ dicts' = d2
                     /\ mol_low' = m1
                     /\ mol_high' = m2
                     /\ solvers' = solvers \o << solver_low,
                                                 solver_high[1] >>
                     /\ get_mol_calls' =
                           [low |-> get_mol_calls.low + c1,
                            high |-> get_mol_calls.high + c2]
        /\ UNCHANGED << frag_pc, solver_low, solver_high, geometry >>
        /\ UNCHANGED outside_frag

\* Fragment.update_geometry(new_geometry), lines 119-134
UpdateGeometry ==
    \E new_geometry \in 1 .. MaxGeometry :
        /\ frag_pc = "constructed"
        /\ geometry' = Some(new_geometry)
        /\ mol_low' = SetGeom(mol_low, Some(new_geometry))
        /\ mol_high' = SetGeom(mol_high, Some(new_geometry))
        /\ UNCHANGED << frag_pc, solver_low, solver_high, options_low,
                        options_high, dicts, e_fragment, solvers,
                        get_mol_calls, frag_call >>
        /\ UNCHANGED outside_frag

FragNext ==
    \/ Simulate
    \/ UpdateGeometry

FragSpec == FragInit /\ [][FragNext]_vars

(* ------------------- claim C30: Fragment.simulate ---------------------- *)
\* the fragment is set up with solvers get_energy knows, and each molecule
\* is either built or has a basis to be built with
Usable ==
    /\ solver_low \in {"RHF", "CCSD", "FCI", "MINDO3", "VQE"}
    /\ mol_low # None \/ "basis" \in dicts[options_low]
    /\ solver_high # None =>
          /\ solver_high[1] \in {"RHF", "CCSD", "FCI", "MINDO3", "VQE"}
          /\ mol_high # None \/ "basis" \in dicts[options_high]

\* C30: a call of simulate() on a usable Fragment returns, whether it is
\* the first or a later one and whatever update_geometry did in between;
\* a molecule that exists is kept and get_mol is called at most once for
\* each molecule; its options are left without 'basis'; and a call that
\* returns stores and returns e_high - e_low if there is a high accuracy
\* solver and e_low if not.
C30_RepeatedSimulate ==
    [][ frag_call'.count = frag_call.count + 1 =>
          /\ Usable => frag_call'.outcome = "returned"
          /\ mol_low # None => mol_low' = mol_low
          /\ mol_high # None => mol_high' = mol_high
          /\ get_mol_calls'.low <= 1
          /\ get_mol_calls'.high <= 1
          /\ frag_call'.outcome = "returned" =>
                /\ mol_low' # None
                /\ "basis" \notin dicts'[options_low']
                /\ solver_high # None =>
                      /\ mol_high' # None
                      /\ "basis" \notin dicts'[options_high']
                /\ e_fragment' = frag_call'.value
                /\ e_fragment' =
                      IF solver_high # None
                      THEN Some(frag_call'.e_high - frag_call'.e_low)
                      ELSE Some(frag_call'.e_low) ]_vars

C30_Witness ==
    /\ frag_pc = "constructed"
    /\ frag_call.count = 2
    /\ frag_call.outcome = "returned"
    /\ solver_high # None
    /\ options_low = "low_rest"
    /\ options_high = "high_rest"
    /\ frag_call.geometry # mol_low[1].built_at

====
